---- MODULE Spec2Model ----
(***************************************************************************)
(* Model of the task-execution engine of the OpenCode supervisor plugin    *)
(* (executeTask and the response interpreter it uses).                     *)
(*                                                                         *)
(* One run of executeTask is a sequence of atomic segments separated by    *)
(* its suspension points: the remote calls (createSession, sendMessage,    *)
(* getSession, getSessionDiff) and the backoff timer.  `pc` names the call *)
(* the run is suspended on; each action is the resolution (or rejection)   *)
(* of that call together with all synchronous code up to the next call.    *)
(*                                                                         *)
(* Optional JavaScript values (`x?: T`) are modelled as sets: {} when the  *)
(* value is absent (undefined), {v} when it is present.                    *)
(***************************************************************************)
EXTENDS Integers, Sequences, FiniteSets, TLC

VARIABLES
    maxIterations,          \* parameter of executeTask
    continueOnError,        \* parameter of executeTask
    pc,                     \* suspension point of the run
    outcome,                \* "running", "returned" or "raised"
    result,                 \* the TaskResult, {} until returned
    thrown,                 \* the error raised to the caller, {} if none
    session,                \* the Session returned by createSession
    currentPrompt,
    iteration,
    lastResponse,
    consecutiveNoProgress,
    allActions,
    logs,
    response,               \* `response` of the iteration awaiting getSession
    finalSession,           \* what the final getSession returned, {} before
    remote,                 \* the session as the remote service holds it
    calls,                  \* requests issued through the client, in order
    replies,                \* their outcomes, in order
    waits,                  \* backoff timers that have elapsed
    probe,                  \* the interpreter applied to one response on its own
    client,                 \* an OpenCodeClient used on its own
    runs,                   \* several runs of executeTask side by side
    regexTool               \* a run of the regex-based tool's execute

\* the state of one run of executeTask and of the service it talks to
engineVars == <<maxIterations, continueOnError, pc, outcome, result, thrown, session,
                currentPrompt, iteration, lastResponse, consecutiveNoProgress,
                allActions, logs, response, finalSession, remote, calls, replies,
                waits>>

\* what the run of executeTask leaves alone: the components studied on their
\* own
side == <<probe, client, runs, regexTool>>

vars == <<engineVars, side>>

params == <<maxIterations, continueOnError>>

-----------------------------------------------------------------------------
(* Bounds of the model *)

\* largest iteration budget a run is started with
MaxIterations == 4

\* most remote calls that fail in one run
MaxFaults == 1

\* most times the agent changes the session's file summary in one run
MaxRemoteChanges == 1

-----------------------------------------------------------------------------
(* Optional values *)

Some(o) == CHOOSE v \in o : TRUE

\* JavaScript truthiness of an optional string
Truthy(o) == o # {} /\ o # {""}

\* a || b on optional strings
OrElse(a, b) == IF Truthy(a) THEN a ELSE b

Last(s) == s[Len(s)]

-----------------------------------------------------------------------------
(* Response interpreter *)

OutputCap == 500

\* s.slice(0, n)
Slice(s, n) == IF Len(s) <= n THEN s ELSE SubSeq(s, 1, n)

RECURSIVE JoinLines(_)
JoinLines(ts) ==
    IF Len(ts) = 0 THEN ""
    ELSE IF Len(ts) = 1 THEN ts[1]
    ELSE ts[1] \o "\n" \o JoinLines(Tail(ts))

IsTextPart(p) == p.type = "text" /\ Truthy(p.text)

RECURSIVE TextsOf(_)
TextsOf(ps) ==
    IF Len(ps) = 0 THEN <<>>
    ELSE IF IsTextPart(ps[1]) THEN <<Some(ps[1].text)>> \o TextsOf(Tail(ps))
    ELSE TextsOf(Tail(ps))

extractText(resp) ==
    IF resp.parts = {} THEN "" ELSE JoinLines(TextsOf(Some(resp.parts)))

IsToolPart(p) == p.type = "tool" /\ p.state # {}

InputField(state, f) == IF state.input = {} THEN {} ELSE Some(state.input)[f]

MetaField(state, f) == IF state.metadata = {} THEN {} ELSE Some(state.metadata)[f]

\* ToolActionOf flagging every exit code that is present, 0 included
ToolActionOfFlagsAnyExit(p) ==
    LET state    == Some(p.state)
        tool     == OrElse(p.tool, OrElse(state.tool, {"unknown"}))
        exitCode == MetaField(state, "exit")
        hasError == exitCode # {}
        hasCmd   == Truthy(InputField(state, "command"))
        path     == OrElse(InputField(state, "path"), InputField(state, "file_path"))
    IN  [tool        |-> Some(tool),
         status      |-> state.status,
         exitCode    |-> exitCode,
         hasError    |-> hasError,
         command     |-> IF hasCmd THEN InputField(state, "command") ELSE {},
         description |-> IF hasCmd THEN InputField(state, "description") ELSE {},
         path        |-> IF Truthy(path) THEN path ELSE {},
         output      |-> IF Truthy(state.output)
                           THEN {Slice(Some(state.output), OutputCap)}
                         ELSE IF Truthy(MetaField(state, "output"))
                           THEN {Slice(Some(MetaField(state, "output")), OutputCap)}
                         ELSE {}]

ToolActionOf(p) ==
    LET state    == Some(p.state)
        tool     == OrElse(p.tool, OrElse(state.tool, {"unknown"}))
        exitCode == MetaField(state, "exit")
        hasError == exitCode # {} /\ exitCode # {0}
        hasCmd   == Truthy(InputField(state, "command"))
        path     == OrElse(InputField(state, "path"), InputField(state, "file_path"))
    IN  [tool        |-> Some(tool),
         status      |-> state.status,
         exitCode    |-> exitCode,
         hasError    |-> hasError,
         command     |-> IF hasCmd THEN InputField(state, "command") ELSE {},
         description |-> IF hasCmd THEN InputField(state, "description") ELSE {},
         path        |-> IF Truthy(path) THEN path ELSE {},
         output      |-> IF Truthy(state.output)
                           THEN {Slice(Some(state.output), OutputCap)}
                         ELSE IF Truthy(MetaField(state, "output"))
                           THEN {Slice(Some(MetaField(state, "output")), OutputCap)}
                         ELSE {}]

RECURSIVE MapToolParts(_)
MapToolParts(ps) ==
    IF Len(ps) = 0 THEN <<>>
    ELSE IF IsToolPart(ps[1]) THEN <<ToolActionOf(ps[1])>> \o MapToolParts(Tail(ps))
    ELSE MapToolParts(Tail(ps))

extractToolActions(resp) ==
    IF resp.parts = {} THEN <<>> ELSE MapToolParts(Some(resp.parts))

\* hasToolError taking an action that captured output for a failed one
hasToolErrorReadsOutput(actions) ==
    LET bad(a) == a.hasError \/ a.output # {}
    IN  IF \E i \in DOMAIN actions : bad(actions[i])
        THEN {actions[CHOOSE i \in DOMAIN actions :
                         /\ bad(actions[i])
                         /\ \A j \in DOMAIN actions : bad(actions[j]) => i <= j]}
        ELSE {}

\* actions.find((a) => a.hasError) || null, as an optional
hasToolError(actions) ==
    IF \E i \in DOMAIN actions : actions[i].hasError
    THEN {actions[CHOOSE i \in DOMAIN actions :
                     /\ actions[i].hasError
                     /\ \A j \in DOMAIN actions : actions[j].hasError => i <= j]}
    ELSE {}

\* hasWriteActions looking for edits only
hasWriteActionsEditOnly(actions) ==
    \E i \in DOMAIN actions : actions[i].tool = "edit"

hasWriteActions(actions) ==
    \E i \in DOMAIN actions : actions[i].tool = "write" \/ actions[i].tool = "edit"

-----------------------------------------------------------------------------
(* The remote service: what the calls can return *)

\* the id the service gives the session of this run
SessionId == IF runs.kind = "concurrent" THEN runs.id ELSE "s1"

RequestError == "HTTP 500: Internal Server Error"

NoChanges ==
    [summary |-> {[additions |-> 0, deletions |-> 0, files |-> 0]},
     diffs   |-> <<>>]

ThreeFiles ==
    [summary |-> {[additions |-> 5, deletions |-> 2, files |-> 3]},
     diffs   |-> <<[path |-> "a.ts", additions |-> 4, deletions |-> 2, status |-> "modified"],
                   [path |-> "b.ts", additions |-> 1, deletions |-> 0, status |-> "added"],
                   [path |-> "c.ts", additions |-> 0, deletions |-> 0, status |-> "deleted"]>>]

\* states of the session on the remote service
RemoteStates == {NoChanges, ThreeFiles}

NoInput == [command |-> {}, description |-> {}, path |-> {}, file_path |-> {}]

TextPart == [type |-> "text", text |-> {"Done."}, tool |-> {}, state |-> {}]

WritePart ==
    [type |-> "tool", text |-> {}, tool |-> {"write"},
     state |-> {[status |-> {"completed"}, tool |-> {},
                 input |-> {[NoInput EXCEPT !.file_path = {"a.ts"}]},
                 output |-> {}, metadata |-> {}]}]

BashFailPart ==
    [type |-> "tool", text |-> {}, tool |-> {"bash"},
     state |-> {[status |-> {"completed"}, tool |-> {},
                 input |-> {[NoInput EXCEPT !.command = {"npm test"}]},
                 output |-> {"1 failing"},
                 metadata |-> {[exit |-> {1}, output |-> {}]}]}]

ResponseOf(finish, parts) == [info |-> {[finish |-> finish]}, parts |-> {parts}]

\* responses the agent can send: it stops, gives no finish reason or is cut
\* off ("length"), having done nothing, written a file, or run a command that
\* failed
AgentResponses ==
    {ResponseOf({"stop"}, <<>>),
     ResponseOf({"stop"}, <<TextPart, WritePart>>),
     ResponseOf({"stop"}, <<BashFailPart>>),
     ResponseOf({}, <<>>),
     ResponseOf({"length"}, <<BashFailPart>>)}

\* the responses the agent of this run draws from
Responses == IF runs.kind = "single" THEN AgentResponses ELSE runs.agent

\* session.summary?.files || 0 and its siblings
SummaryField(sess, f) == IF sess.summary = {} THEN 0 ELSE Some(sess.summary)[f]

\* response.info?.finish
FinishOf(resp) == IF resp.info = {} THEN {} ELSE Some(resp.info).finish

\* `${x}` of an optional string
Str(o) == IF o = {} THEN "undefined" ELSE Some(o)

-----------------------------------------------------------------------------
(* Prompts and log lines *)

InitialPrompt == [kind |-> "initial"]

\* ToolErrorPrompt quoting the exit code alone
ToolErrorPromptWithoutOutput(errorAction) ==
    [kind     |-> "fix_error",
     exitCode |-> errorAction.exitCode,
     output   |-> "(no output)"]

ToolErrorPrompt(errorAction) ==
    [kind     |-> "fix_error",
     exitCode |-> errorAction.exitCode,
     output   |-> IF Truthy(errorAction.output) THEN Some(errorAction.output)
                  ELSE "(no output)"]

VerifyWritesPrompt == [kind |-> "verify_writes"]

UseWriteToolPrompt == [kind |-> "use_write_tool"]

FinishContinuePrompt(finishReason) ==
    [kind |-> "continue_after_finish", finish |-> Str(finishReason)]

ErrorContinuePrompt == [kind |-> "continue_after_error"]

LogSessionCreated(id) == [kind |-> "session_created", id |-> id]

LogIteration(i, n) == [kind |-> "iteration", i |-> i, of |-> n]

LogFinish(finishReason) ==
    [kind |-> "finish", finish |-> Some(OrElse(finishReason, {"unknown"}))]

LogActions(actions) ==
    [kind  |-> "actions",
     tools |-> IF Len(actions) > 0 THEN [i \in DOMAIN actions |-> actions[i].tool]
               ELSE <<"none">>]

LogToolError(errorAction) ==
    [kind |-> "tool_error", tool |-> errorAction.tool, exitCode |-> errorAction.exitCode]

LogFilesChanged(n) == [kind |-> "files_changed", files |-> n]

LogCompleted == [kind |-> "completed_with_changes"]

LogNoProgress == [kind |-> "no_progress"]

LogUnexpectedFinish(finishReason) ==
    [kind |-> "unexpected_finish", finish |-> Str(finishReason)]

LogRequestError(err) == [kind |-> "request_error", error |-> err]

LogFinalStateFailed(err) == [kind |-> "final_state_failed", error |-> err]

-----------------------------------------------------------------------------
(* Decisions of the loop body, as functions of what the iteration saw *)

NoProgressLimit == 3

\* The branch on finishReason after the in-loop getSession: what the
\* iteration does next ("break", "continue", or "fallthrough" to the end of
\* the loop body), the prompt and no-progress counter it leaves, and the
\* lines it logs.
\* ChangesDecision with the `break` lost
ChangesDecisionContinues(noProgress, prompt) ==
    [ctl |-> "continue", prompt |-> prompt, noProgress |-> noProgress,
     logs |-> <<LogCompleted>>]

\* finish "stop" with file changes
ChangesDecision(noProgress, prompt) ==
    [ctl |-> "break", prompt |-> prompt, noProgress |-> noProgress,
     logs |-> <<LogCompleted>>]

\* NoChangesDecision comparing with > for >=
NoChangesDecisionLate(noProgress, prompt, actions) ==
    IF noProgress + 1 > NoProgressLimit
    THEN [ctl |-> "break", prompt |-> prompt, noProgress |-> noProgress + 1,
          logs |-> <<LogNoProgress>>]
    ELSE [ctl |-> "continue",
          prompt |-> IF hasWriteActions(actions) THEN VerifyWritesPrompt
                     ELSE UseWriteToolPrompt,
          noProgress |-> noProgress + 1,
          logs |-> <<>>]

\* finish "stop" without file changes
NoChangesDecision(noProgress, prompt, actions) ==
    IF noProgress + 1 >= NoProgressLimit
    THEN [ctl |-> "break", prompt |-> prompt, noProgress |-> noProgress + 1,
          logs |-> <<LogNoProgress>>]
    ELSE [ctl |-> "continue",
          prompt |-> IF hasWriteActions(actions) THEN VerifyWritesPrompt
                     ELSE UseWriteToolPrompt,
          noProgress |-> noProgress + 1,
          logs |-> <<>>]

\* OtherFinishDecision leaving the loop when continueOnError is false
OtherFinishDecisionBreaks(finishReason, noProgress, prompt, retry) ==
    IF retry
    THEN [ctl |-> "continue", prompt |-> FinishContinuePrompt(finishReason),
          noProgress |-> noProgress,
          logs |-> <<LogUnexpectedFinish(finishReason)>>]
    ELSE [ctl |-> "break", prompt |-> prompt, noProgress |-> noProgress,
          logs |-> <<LogUnexpectedFinish(finishReason)>>]

\* any other finish reason
OtherFinishDecision(finishReason, noProgress, prompt, retry) ==
    IF retry
    THEN [ctl |-> "continue", prompt |-> FinishContinuePrompt(finishReason),
          noProgress |-> noProgress,
          logs |-> <<LogUnexpectedFinish(finishReason)>>]
    ELSE [ctl |-> "fallthrough", prompt |-> prompt, noProgress |-> noProgress,
          logs |-> <<LogUnexpectedFinish(finishReason)>>]

FinishDecision(finishReason, filesChanged, noProgress, prompt, actions, retry) ==
    IF finishReason = {"stop"}
    THEN IF filesChanged > 0
         THEN ChangesDecision(noProgress, prompt)
         ELSE NoChangesDecision(noProgress, prompt, actions)
    ELSE OtherFinishDecision(finishReason, noProgress, prompt, retry)

\* CatchDecision comparing the iteration budget with <= for <
CatchDecisionRetriesLast(retry, iter, maxIter) ==
    IF retry /\ iter <= maxIter THEN "retry" ELSE "throw"

\* The catch block of the loop body: retry after the backoff, or rethrow.
CatchDecision(retry, iter, maxIter) ==
    IF retry /\ iter < maxIter THEN "retry" ELSE "throw"

\* RetryPrompt leaving the prompt as it was
RetryPromptKept(prompt) == prompt

\* The prompt the catch block leaves for the retry.
RetryPrompt(prompt) == ErrorContinuePrompt

\* FinalFallback keeping the session getSession had returned
FinalFallbackKeepsFetched(fetched) ==
    IF fetched # {} THEN Some(fetched)
    ELSE [id |-> SessionId, summary |-> {[additions |-> 0, deletions |-> 0, files |-> 0]}]

\* The catch block of the final fetch: the session the result is computed
\* from when getSession or getSessionDiff failed; `fetched` is what
\* getSession had returned, if it had.
FinalFallback(fetched) ==
    [id |-> SessionId, summary |-> {[additions |-> 0, deletions |-> 0, files |-> 0]}]

\* ClassifyStatus testing for tool errors before the iteration budget
ClassifyStatusErrorsBeforeBudget(filesChanged, iter, maxIter, actions) ==
    IF filesChanged > 0 THEN "completed"
    ELSE IF hasToolError(actions) # {} THEN "failed"
    ELSE IF iter >= maxIter THEN "max_iterations"
    ELSE "completed_no_changes"

\* ClassifyStatus testing for tool errors before the file changes
ClassifyStatusErrorsFirst(filesChanged, iter, maxIter, actions) ==
    IF hasToolError(actions) # {} THEN "failed"
    ELSE IF filesChanged > 0 THEN "completed"
    ELSE IF iter >= maxIter THEN "max_iterations"
    ELSE "completed_no_changes"

\* ClassifyStatus comparing the iteration budget with > for >=
ClassifyStatusBudgetOffByOne(filesChanged, iter, maxIter, actions) ==
    IF filesChanged > 0 THEN "completed"
    ELSE IF iter > maxIter THEN "max_iterations"
    ELSE IF hasToolError(actions) # {} THEN "failed"
    ELSE "completed_no_changes"

ClassifyStatus(filesChanged, iter, maxIter, actions) ==
    IF filesChanged > 0 THEN "completed"
    ELSE IF iter >= maxIter THEN "max_iterations"
    ELSE IF hasToolError(actions) # {} THEN "failed"
    ELSE "completed_no_changes"

\* TaskResultOf counting the responses received instead of the messages sent
TaskResultOfCountsResponses(final, diffs, lg) ==
    LET filesChanged == SummaryField(final, "files")
    IN  [status       |-> ClassifyStatus(filesChanged, iteration, maxIterations, allActions),
         sessionId    |-> Some(session).id,
         iterations   |-> Len(SelectSeq(replies,
                                        LAMBDA r : r.op = "sendMessage" /\ r.ok)),
         filesChanged |-> filesChanged,
         additions    |-> SummaryField(final, "additions"),
         deletions    |-> SummaryField(final, "deletions"),
         diffs        |-> diffs,
         actions      |-> allActions,
         logs         |-> lg,
         finalOutput  |-> IF lastResponse # {} THEN extractText(Some(lastResponse)) ELSE ""]

TaskResultOf(final, diffs, lg) ==
    LET filesChanged == SummaryField(final, "files")
    IN  [status       |-> ClassifyStatus(filesChanged, iteration, maxIterations, allActions),
         sessionId    |-> Some(session).id,
         iterations   |-> iteration,
         filesChanged |-> filesChanged,
         additions    |-> SummaryField(final, "additions"),
         deletions    |-> SummaryField(final, "deletions"),
         diffs        |-> diffs,
         actions      |-> allActions,
         logs         |-> lg,
         finalOutput  |-> IF lastResponse # {} THEN extractText(Some(lastResponse)) ELSE ""]

-----------------------------------------------------------------------------
(* Requests and their outcomes *)

Call(op, text) == [op |-> op, text |-> text]

\* outcome of the request the run is suspended on; `final` tells the final
\* fetch from the calls of the loop, `files` is the file count the remote
\* service holds when it answers
Reply(op, ok, body) ==
    [op    |-> op,
     ok    |-> ok,
     iter  |-> iteration,
     final |-> pc \in {"finalGetSession", "getSessionDiff"},
     files |-> SummaryField(remote', "files"),
     body  |-> body]

\* calls that failed, among those answered by `rs`
FailedCalls(rs) == Len(SelectSeq(rs, LAMBDA r : ~r.ok))

\* file counts the remote service held while it gave the answers `rs`, from
\* the fresh session on
FileCounts(rs) == <<0>> \o [i \in DOMAIN rs |-> rs[i].files]

\* times the file count changed while the service gave the answers `rs`
FileCountChanges(rs) ==
    Cardinality({i \in 2..Len(FileCounts(rs)) :
                    FileCounts(rs)[i] # FileCounts(rs)[i - 1]})

\* the answers given to the invocation that is not running, if there is one
ParkedReplies == IF runs.kind = "concurrent" THEN runs.parked.replies ELSE <<>>

\* the remote service may still fail a call
MayFail == FailedCalls(replies) + FailedCalls(ParkedReplies) < MaxFaults

RemoteChanges == FileCountChanges(replies) + FileCountChanges(ParkedReplies)

\* states the agent's work on a prompt can leave the session in
NextRemoteStates ==
    IF RemoteChanges < MaxRemoteChanges THEN RemoteStates ELSE {remote}

-----------------------------------------------------------------------------
(* Control flow shared by the actions *)

\* LoopHead with the `iteration++` lost
LoopHeadKeepsCount(prompt, lg) ==
    /\ currentPrompt' = prompt
    /\ IF iteration < maxIterations
       THEN /\ iteration' = iteration
            /\ logs' = Append(lg, LogIteration(iteration, maxIterations))
            /\ calls' = Append(calls, Call("sendMessage", {prompt}))
            /\ pc' = "sendMessage"
       ELSE /\ iteration' = iteration
            /\ logs' = lg
            /\ calls' = Append(calls, Call("getSession", {}))
            /\ pc' = "finalGetSession"

\* LoopHead as the head of a loop that tests its condition after the body
LoopHeadTestsAfterBody(prompt, lg) ==
    /\ currentPrompt' = prompt
    /\ IF iteration < maxIterations \/ iteration = 0
       THEN /\ iteration' = iteration + 1
            /\ logs' = Append(lg, LogIteration(iteration + 1, maxIterations))
            /\ calls' = Append(calls, Call("sendMessage", {prompt}))
            /\ pc' = "sendMessage"
       ELSE /\ iteration' = iteration
            /\ logs' = lg
            /\ calls' = Append(calls, Call("getSession", {}))
            /\ pc' = "finalGetSession"

\* Back to `while (iteration < maxIterations)` with prompt `prompt` and log
\* `lg`: start the next iteration and send the prompt, or fall out of the loop
\* into the final fetch.
LoopHead(prompt, lg) ==
    /\ currentPrompt' = prompt
    /\ IF iteration < maxIterations
       THEN /\ iteration' = iteration + 1
            /\ logs' = Append(lg, LogIteration(iteration + 1, maxIterations))
            /\ calls' = Append(calls, Call("sendMessage", {prompt}))
            /\ pc' = "sendMessage"
       ELSE /\ iteration' = iteration
            /\ logs' = lg
            /\ calls' = Append(calls, Call("getSession", {}))
            /\ pc' = "finalGetSession"

\* `break`: leave the loop for the final fetch.
LeaveLoop(prompt, lg) ==
    /\ currentPrompt' = prompt
    /\ iteration' = iteration
    /\ logs' = lg
    /\ calls' = Append(calls, Call("getSession", {}))
    /\ pc' = "finalGetSession"

\* `throw err` out of executeTask.
Throw(err, lg) ==
    /\ outcome' = "raised"
    /\ thrown' = {err}
    /\ logs' = lg
    /\ pc' = "done"
    /\ UNCHANGED <<result, currentPrompt, iteration, calls>>

\* The catch block of the loop body.
Catch(err) ==
    LET lg == Append(logs, LogRequestError(err))
    IN  IF CatchDecision(continueOnError, iteration, maxIterations) = "retry"
        THEN /\ pc' = "backoff"
             /\ logs' = lg
             /\ UNCHANGED <<outcome, result, thrown, currentPrompt, iteration, calls>>
        ELSE Throw(err, lg)

\* Classification and `return` of the TaskResult.
Return(final, diffs, lg) ==
    /\ result' = {TaskResultOf(final, diffs, lg)}
    /\ outcome' = "returned"
    /\ logs' = lg
    /\ pc' = "done"

-----------------------------------------------------------------------------
(* The run *)

NoProbe == [stage |-> "none"]

NoClient == [stage |-> "none"]

NoRuns == [kind |-> "single"]

NoRegexTool == [stage |-> "none"]

\* the components studied on their own are not in use, and the run is the
\* only one
SideIdle ==
    probe = NoProbe /\ client = NoClient /\ runs = NoRuns /\ regexTool = NoRegexTool


\* executeTask is about to be called; the iteration budget comes from the
\* plugin configuration as it is, so it can be zero or negative
EngineInit ==
    /\ maxIterations \in (-1)..MaxIterations
    /\ continueOnError \in BOOLEAN
    /\ pc = "start"
    /\ outcome = "running"
    /\ result = {}
    /\ thrown = {}
    /\ session = {}
    /\ currentPrompt = InitialPrompt
    /\ iteration = 0
    /\ lastResponse = {}
    /\ consecutiveNoProgress = 0
    /\ allActions = <<>>
    /\ logs = <<>>
    /\ response = {}
    /\ finalSession = {}
    /\ remote = NoChanges
    /\ calls = <<>>
    /\ replies = <<>>
    /\ waits = 0

Init == EngineInit /\ SideIdle

\* executeTask is called and issues createSession.
ExecuteTask ==
    /\ pc = "start"
    /\ pc' = "createSession"
    /\ calls' = Append(calls, Call("createSession", {}))
    /\ UNCHANGED <<side, params, outcome, result, thrown, session, currentPrompt, iteration,
                   lastResponse, consecutiveNoProgress, allActions, logs, response,
                   finalSession, remote, replies, waits>>

CreateSessionOk ==
    /\ pc = "createSession"
    /\ \E r \in NextRemoteStates :
         /\ remote' = r
         /\ replies' = Append(replies, Reply("createSession", TRUE, {}))
         /\ session' = {[id |-> SessionId, summary |-> r.summary]}
         /\ LoopHead(InitialPrompt, Append(logs, LogSessionCreated(SessionId)))
    /\ UNCHANGED <<side, params, outcome, result, thrown, lastResponse, consecutiveNoProgress,
                   allActions, response, finalSession, waits>>

\* CreateSessionFail trying createSession again
CreateSessionFailRetries ==
    /\ pc = "createSession"
    /\ MayFail
    /\ remote' = remote
    /\ replies' = Append(replies, Reply("createSession", FALSE, {}))
    /\ calls' = Append(calls, Call("createSession", {}))
    /\ UNCHANGED <<side, params, pc, outcome, result, thrown, session, currentPrompt,
                   iteration, lastResponse, consecutiveNoProgress, allActions, logs,
                   response, finalSession, waits>>

CreateSessionFail ==
    /\ pc = "createSession"
    /\ MayFail
    /\ remote' = remote
    /\ replies' = Append(replies, Reply("createSession", FALSE, {}))
    /\ outcome' = "raised"
    /\ thrown' = {"Failed to create session: " \o RequestError}
    /\ pc' = "done"
    /\ UNCHANGED <<side, params, result, session, currentPrompt, iteration, lastResponse,
                   consecutiveNoProgress, allActions, logs, response, finalSession,
                   calls, waits>>

\* SendMessageOk taking the corrective path whatever continueOnError is
SendMessageOkAlwaysCorrects ==
    /\ pc = "sendMessage"
    /\ \E resp \in Responses, r \in NextRemoteStates :
         LET finishReason == FinishOf(resp)
             actions      == extractToolActions(resp)
             lg           == logs \o <<LogFinish(finishReason), LogActions(actions)>>
             errorAction  == hasToolError(actions)
         IN  /\ remote' = r
             /\ replies' = Append(replies, Reply("sendMessage", TRUE, {resp}))
             /\ lastResponse' = {resp}
             /\ allActions' = allActions \o actions
             /\ IF errorAction # {}
                THEN /\ consecutiveNoProgress' = 0
                     /\ response' = {}
                     /\ LoopHead(ToolErrorPrompt(Some(errorAction)),
                                 Append(lg, LogToolError(Some(errorAction))))
                ELSE /\ response' = {resp}
                     /\ logs' = lg
                     /\ calls' = Append(calls, Call("getSession", {}))
                     /\ pc' = "getSession"
                     /\ UNCHANGED <<currentPrompt, iteration, consecutiveNoProgress>>
    /\ UNCHANGED <<side, params, outcome, result, thrown, session, finalSession, waits>>

\* SendMessageOk appending the actions only after the check for a failed one
SendMessageOkAppendsAfterCheck ==
    /\ pc = "sendMessage"
    /\ \E resp \in Responses, r \in NextRemoteStates :
         LET finishReason == FinishOf(resp)
             actions      == extractToolActions(resp)
             lg           == logs \o <<LogFinish(finishReason), LogActions(actions)>>
             errorAction  == hasToolError(actions)
         IN  /\ remote' = r
             /\ replies' = Append(replies, Reply("sendMessage", TRUE, {resp}))
             /\ lastResponse' = {resp}
             /\ IF errorAction # {} /\ continueOnError
                THEN /\ allActions' = allActions
                     /\ consecutiveNoProgress' = 0
                     /\ response' = {}
                     /\ LoopHead(ToolErrorPrompt(Some(errorAction)),
                                 Append(lg, LogToolError(Some(errorAction))))
                ELSE /\ allActions' = allActions \o actions
                     /\ response' = {resp}
                     /\ logs' = lg
                     /\ calls' = Append(calls, Call("getSession", {}))
                     /\ pc' = "getSession"
                     /\ UNCHANGED <<currentPrompt, iteration, consecutiveNoProgress>>
    /\ UNCHANGED <<side, params, outcome, result, thrown, session, finalSession, waits>>

\* SendMessageOk remembering the response only when it goes on to getSession
SendMessageOkRemembersChecked ==
    /\ pc = "sendMessage"
    /\ \E resp \in Responses, r \in NextRemoteStates :
         LET finishReason == FinishOf(resp)
             actions      == extractToolActions(resp)
             lg           == logs \o <<LogFinish(finishReason), LogActions(actions)>>
             errorAction  == hasToolError(actions)
         IN  /\ remote' = r
             /\ replies' = Append(replies, Reply("sendMessage", TRUE, {resp}))
             /\ allActions' = allActions \o actions
             /\ IF errorAction # {} /\ continueOnError
                THEN /\ lastResponse' = lastResponse
                     /\ consecutiveNoProgress' = 0
                     /\ response' = {}
                     /\ LoopHead(ToolErrorPrompt(Some(errorAction)),
                                 Append(lg, LogToolError(Some(errorAction))))
                ELSE /\ lastResponse' = {resp}
                     /\ response' = {resp}
                     /\ logs' = lg
                     /\ calls' = Append(calls, Call("getSession", {}))
                     /\ pc' = "getSession"
                     /\ UNCHANGED <<currentPrompt, iteration, consecutiveNoProgress>>
    /\ UNCHANGED <<side, params, outcome, result, thrown, session, finalSession, waits>>

SendMessageOk ==
    /\ pc = "sendMessage"
    /\ \E resp \in Responses, r \in NextRemoteStates :
         LET finishReason == FinishOf(resp)
             actions      == extractToolActions(resp)
             lg           == logs \o <<LogFinish(finishReason), LogActions(actions)>>
             errorAction  == hasToolError(actions)
         IN  /\ remote' = r
             /\ replies' = Append(replies, Reply("sendMessage", TRUE, {resp}))
             /\ lastResponse' = {resp}
             /\ allActions' = allActions \o actions
             /\ IF errorAction # {} /\ continueOnError
                THEN /\ consecutiveNoProgress' = 0
                     /\ response' = {}
                     /\ LoopHead(ToolErrorPrompt(Some(errorAction)),
                                 Append(lg, LogToolError(Some(errorAction))))
                ELSE /\ response' = {resp}
                     /\ logs' = lg
                     /\ calls' = Append(calls, Call("getSession", {}))
                     /\ pc' = "getSession"
                     /\ UNCHANGED <<currentPrompt, iteration, consecutiveNoProgress>>
    /\ UNCHANGED <<side, params, outcome, result, thrown, session, finalSession, waits>>

SendMessageFail ==
    /\ pc = "sendMessage"
    /\ MayFail
    /\ remote' = remote
    /\ replies' = Append(replies, Reply("sendMessage", FALSE, {}))
    /\ Catch(RequestError)
    /\ UNCHANGED <<side, params, session, lastResponse, consecutiveNoProgress, allActions,
                   response, finalSession, waits>>

\* GetSessionOk looking for write attempts in the last response only
GetSessionOkLastResponseOnly ==
    /\ pc = "getSession"
    /\ remote' = remote
    /\ replies' = Append(replies, Reply("getSession", TRUE, {}))
    /\ LET sessionState == [id |-> SessionId, summary |-> remote.summary]
           filesChanged == SummaryField(sessionState, "files")
           d  == FinishDecision(FinishOf(Some(response)), filesChanged,
                                consecutiveNoProgress, currentPrompt,
                                extractToolActions(Some(response)),
                                continueOnError)
           lg == Append(logs, LogFilesChanged(filesChanged)) \o d.logs
       IN  /\ consecutiveNoProgress' = d.noProgress
           /\ IF d.ctl = "break" THEN LeaveLoop(d.prompt, lg)
              ELSE LoopHead(d.prompt, lg)
    /\ response' = {}
    /\ UNCHANGED <<side, params, outcome, result, thrown, session, lastResponse, allActions,
                   finalSession, waits>>

GetSessionOk ==
    /\ pc = "getSession"
    /\ remote' = remote
    /\ replies' = Append(replies, Reply("getSession", TRUE, {}))
    /\ LET sessionState == [id |-> SessionId, summary |-> remote.summary]
           filesChanged == SummaryField(sessionState, "files")
           d  == FinishDecision(FinishOf(Some(response)), filesChanged,
                                consecutiveNoProgress, currentPrompt, allActions,
                                continueOnError)
           lg == Append(logs, LogFilesChanged(filesChanged)) \o d.logs
       IN  /\ consecutiveNoProgress' = d.noProgress
           /\ IF d.ctl = "break" THEN LeaveLoop(d.prompt, lg)
              ELSE LoopHead(d.prompt, lg)
    /\ response' = {}
    /\ UNCHANGED <<side, params, outcome, result, thrown, session, lastResponse, allActions,
                   finalSession, waits>>

GetSessionFail ==
    /\ pc = "getSession"
    /\ MayFail
    /\ remote' = remote
    /\ replies' = Append(replies, Reply("getSession", FALSE, {}))
    /\ Catch(RequestError)
    /\ response' = {}
    /\ UNCHANGED <<side, params, session, lastResponse, consecutiveNoProgress, allActions,
                   finalSession, waits>>

\* The backoff timer of the catch block elapses.
Backoff ==
    /\ pc = "backoff"
    /\ waits' = waits + 1
    /\ LoopHead(RetryPrompt(currentPrompt), logs)
    /\ UNCHANGED <<side, params, outcome, result, thrown, session, lastResponse,
                   consecutiveNoProgress, allActions, response, finalSession, remote,
                   replies>>

FinalGetSessionOk ==
    /\ pc = "finalGetSession"
    /\ remote' = remote
    /\ replies' = Append(replies, Reply("getSession", TRUE, {}))
    /\ finalSession' = {[id |-> SessionId, summary |-> remote.summary]}
    /\ calls' = Append(calls, Call("getSessionDiff", {}))
    /\ pc' = "getSessionDiff"
    /\ UNCHANGED <<side, params, outcome, result, thrown, session, currentPrompt, iteration,
                   lastResponse, consecutiveNoProgress, allActions, logs, response,
                   waits>>

\* FinalGetSessionFail going back to the agent with the continuation prompt
FinalGetSessionFailResends ==
    /\ pc = "finalGetSession"
    /\ MayFail
    /\ remote' = remote
    /\ replies' = Append(replies, Reply("getSession", FALSE, {}))
    /\ currentPrompt' = ErrorContinuePrompt
    /\ calls' = Append(calls, Call("sendMessage", {ErrorContinuePrompt}))
    /\ logs' = Append(logs, LogFinalStateFailed(RequestError))
    /\ pc' = "sendMessage"
    /\ UNCHANGED <<side, params, outcome, result, thrown, session, iteration,
                   lastResponse, consecutiveNoProgress, allActions, response,
                   finalSession, waits>>

FinalGetSessionFail ==
    /\ pc = "finalGetSession"
    /\ MayFail
    /\ remote' = remote
    /\ replies' = Append(replies, Reply("getSession", FALSE, {}))
    /\ finalSession' = {FinalFallback(finalSession)}
    /\ Return(FinalFallback(finalSession), <<>>,
              Append(logs, LogFinalStateFailed(RequestError)))
    /\ UNCHANGED <<side, params, thrown, session, currentPrompt, iteration, lastResponse,
                   consecutiveNoProgress, allActions, response, calls, waits>>

GetSessionDiffOk ==
    /\ pc = "getSessionDiff"
    /\ remote' = remote
    /\ replies' = Append(replies, Reply("getSessionDiff", TRUE, {}))
    /\ Return(Some(finalSession), remote.diffs, logs)
    /\ UNCHANGED <<side, params, thrown, session, currentPrompt, iteration, lastResponse,
                   consecutiveNoProgress, allActions, response, finalSession, calls,
                   waits>>

GetSessionDiffFail ==
    /\ pc = "getSessionDiff"
    /\ MayFail
    /\ remote' = remote
    /\ replies' = Append(replies, Reply("getSessionDiff", FALSE, {}))
    /\ finalSession' = {FinalFallback(finalSession)}
    /\ Return(FinalFallback(finalSession), <<>>,
              Append(logs, LogFinalStateFailed(RequestError)))
    /\ UNCHANGED <<side, params, thrown, session, currentPrompt, iteration, lastResponse,
                   consecutiveNoProgress, allActions, response, calls, waits>>

Next ==
    \/ ExecuteTask
    \/ CreateSessionOk
    \/ CreateSessionFail
    \/ SendMessageOk
    \/ SendMessageFail
    \/ GetSessionOk
    \/ GetSessionFail
    \/ Backoff
    \/ FinalGetSessionOk
    \/ FinalGetSessionFail
    \/ GetSessionDiffOk
    \/ GetSessionDiffFail

Spec == Init /\ [][Next]_vars

\* every remote call and every backoff wait of the run is answered in the
\* end, by a result or by a failure
FairSpec == Spec /\ WF_vars(Next)

TypeOK ==
    /\ maxIterations \in (-1)..MaxIterations
    /\ continueOnError \in BOOLEAN
    /\ pc \in {"start", "createSession", "sendMessage", "getSession", "backoff",
               "finalGetSession", "getSessionDiff", "done"}
    /\ outcome \in {"running", "returned", "raised"}
    /\ iteration \in 0..MaxIterations
    /\ consecutiveNoProgress \in 0..NoProgressLimit

-----------------------------------------------------------------------------
(* The response interpreter on its own: extractToolActions and hasToolError  *)
(* applied to one response.                                                  *)

\* most parts of a response given to the interpreter
MaxParts == 2

\* no run of executeTask is under way
EngineIdle ==
    /\ maxIterations = 0
    /\ continueOnError = TRUE
    /\ pc = "start"
    /\ outcome = "running"
    /\ result = {}
    /\ thrown = {}
    /\ session = {}
    /\ currentPrompt = InitialPrompt
    /\ iteration = 0
    /\ lastResponse = {}
    /\ consecutiveNoProgress = 0
    /\ allActions = <<>>
    /\ logs = <<>>
    /\ response = {}
    /\ finalSession = {}
    /\ remote = NoChanges
    /\ calls = <<>>
    /\ replies = <<>>
    /\ waits = 0

SeqsUpTo(S, n) == UNION {[1..k -> S] : k \in 0..n}

\* state.metadata of a tool part: absent, without exit code, or with exit
\* code 0, 1 or 2
ProbeMetadata ==
    {{}} \cup {{[exit |-> e, output |-> {}]} : e \in {{}, {0}, {1}, {2}}}

\* state.output of a tool part: absent, or a text that speaks of an error
ProbeOutputs == {{}, {"Error: command not found"}}

ProbeToolPart(metadata, output) ==
    [type |-> "tool", text |-> {}, tool |-> {"bash"},
     state |-> {[status |-> {"completed"}, tool |-> {},
                 input |-> {[NoInput EXCEPT !.command = {"make"}]},
                 output |-> output,
                 metadata |-> metadata]}]

\* a tool part that has no state yet
StatelessToolPart == [type |-> "tool", text |-> {}, tool |-> {"bash"}, state |-> {}]

ProbeParts ==
    {ProbeToolPart(m, o) : m \in ProbeMetadata, o \in ProbeOutputs}
        \cup {TextPart, StatelessToolPart}

\* responses given to the interpreter: without parts, or with up to MaxParts
ProbeResponses ==
    {[info |-> {[finish |-> {"stop"}]}, parts |-> {}]}
        \cup {ResponseOf({"stop"}, ps) : ps \in SeqsUpTo(ProbeParts, MaxParts)}

InterpInit ==
    /\ EngineIdle
    /\ client = NoClient
    /\ runs = NoRuns
    /\ regexTool = NoRegexTool
    /\ \E resp \in ProbeResponses :
         probe = [stage |-> "given", response |-> resp, given |-> resp,
                  actions |-> <<>>, error |-> {}, again |-> <<>>]

\* ProbeExtract taking the tool parts it has read out of the response
ProbeExtractConsumesParts ==
    /\ probe.stage = "given"
    /\ probe' = [probe EXCEPT
                   !.stage = "extracted",
                   !.actions = extractToolActions(probe.response),
                   !.response =
                       IF @.parts = {} THEN @
                       ELSE [@ EXCEPT !.parts = {SelectSeq(Some(@),
                                                   LAMBDA p : ~IsToolPart(p))}]]
    /\ UNCHANGED <<engineVars, client, runs, regexTool>>

\* const actions = extractToolActions(response)
ProbeExtract ==
    /\ probe.stage = "given"
    /\ probe' = [probe EXCEPT !.stage = "extracted",
                              !.actions = extractToolActions(probe.response)]
    /\ UNCHANGED <<engineVars, client, runs, regexTool>>

\* const errorAction = hasToolError(actions)
ProbeFindError ==
    /\ probe.stage = "extracted"
    /\ probe' = [probe EXCEPT !.stage = "searched",
                              !.error = hasToolError(probe.actions)]
    /\ UNCHANGED <<engineVars, client, runs, regexTool>>

\* extractToolActions(response) once more, on the response as it is now
ProbeExtractAgain ==
    /\ probe.stage = "searched"
    /\ probe' = [probe EXCEPT !.stage = "again",
                              !.again = extractToolActions(probe.response)]
    /\ UNCHANGED <<engineVars, client, runs, regexTool>>

InterpNext == ProbeExtract \/ ProbeFindError \/ ProbeExtractAgain

InterpSpec == InterpInit /\ [][InterpNext]_vars

-----------------------------------------------------------------------------
(* The OpenCodeClient on its own: a caller makes calls of its methods one    *)
(* after the other; each goes through makeRequest, which fetches, checks the *)
(* HTTP status and reads the body as JSON, under a timeout.                  *)

\* most calls made of the client
MaxClientCalls == 2

ClientMethods ==
    {"createSession", "getSession", "getSessionDiff", "sendMessage", "abortSession"}

\* the request a method hands to makeRequest
RequestOf(method) ==
    CASE method = "createSession" -> [verb |-> "POST", path |-> "/session"]
      [] method = "getSession" -> [verb |-> "GET", path |-> "/session/{id}"]
      [] method = "getSessionDiff" -> [verb |-> "GET", path |-> "/session/{id}/diff"]
      [] method = "sendMessage" -> [verb |-> "POST", path |-> "/session/{id}/message"]
      [] method = "abortSession" -> [verb |-> "POST", path |-> "/session/{id}/abort"]

\* bodies the service can answer a request of the method with
BodiesOf(method) ==
    IF method = "abortSession" THEN {[success |-> TRUE], [success |-> FALSE]}
    ELSE {[of |-> method]}

\* MethodResult with the try/catch of abortSession lost
MethodResultAbortPropagates(method, failure, body) ==
    IF failure = {} THEN [returned |-> {body}, raised |-> {}]
    ELSE [returned |-> {}, raised |-> failure]

\* What the method makes of the outcome of its makeRequest: `failure` is the
\* error makeRequest raised, {} if it returned `body`.
MethodResult(method, failure, body) ==
    IF method = "abortSession"
    THEN [returned |-> {failure = {}}, raised |-> {}]
    ELSE IF failure = {} THEN [returned |-> {body}, raised |-> {}]
         ELSE [returned |-> {}, raised |-> failure]

ClientInit ==
    /\ EngineIdle
    /\ probe = NoProbe
    /\ runs = NoRuns
    /\ regexTool = NoRegexTool
    /\ client = [stage |-> "idle", method |-> "none", requests |-> <<>>,
                 timer |-> FALSE, finished |-> <<>>]

\* A method of the client is called: makeRequest arms the timeout and
\* fetches.
ClientCall ==
    /\ client.stage = "idle"
    /\ Len(client.finished) < MaxClientCalls
    /\ \E method \in ClientMethods :
         client' = [client EXCEPT !.stage = "fetching", !.method = method,
                                  !.requests = <<RequestOf(method)>>,
                                  !.timer = TRUE]
    /\ UNCHANGED <<engineVars, probe, runs, regexTool>>

\* makeRequest ends, the timeout is cleared and the method ends with what
\* it makes of the outcome.
Settle(failure, body) ==
    client' = [client EXCEPT
                 !.stage = "idle", !.method = "none", !.requests = <<>>,
                 !.timer = FALSE,
                 !.finished = Append(@, [method   |-> client.method,
                                         requests |-> client.requests,
                                         failure  |-> failure,
                                         body     |-> body]
                                        @@ MethodResult(client.method, failure, body))]

\* fetch rejects: the service cannot be reached
FetchRejects ==
    /\ client.stage = "fetching"
    /\ Settle({"fetch failed"}, {})
    /\ UNCHANGED <<engineVars, probe, runs, regexTool>>

\* the timeout elapses and aborts the fetch or the reading of the body
RequestTimesOut ==
    /\ client.stage \in {"fetching", "reading"}
    /\ client.timer
    /\ Settle({"This operation was aborted"}, {})
    /\ UNCHANGED <<engineVars, probe, runs, regexTool>>

\* the service answers with a status that is not ok
RespondsNotOk ==
    /\ client.stage = "fetching"
    /\ Settle({RequestError}, {})
    /\ UNCHANGED <<engineVars, probe, runs, regexTool>>

\* the service answers with an ok status: the body is read next
RespondsOk ==
    /\ client.stage = "fetching"
    /\ client' = [client EXCEPT !.stage = "reading"]
    /\ UNCHANGED <<engineVars, probe, runs, regexTool>>

\* the body is no JSON
BodyFails ==
    /\ client.stage = "reading"
    /\ Settle({"Unexpected end of JSON input"}, {})
    /\ UNCHANGED <<engineVars, probe, runs, regexTool>>

BodyParses ==
    /\ client.stage = "reading"
    /\ \E body \in BodiesOf(client.method) : Settle({}, body)
    /\ UNCHANGED <<engineVars, probe, runs, regexTool>>

ClientNext ==
    \/ ClientCall
    \/ FetchRejects
    \/ RequestTimesOut
    \/ RespondsNotOk
    \/ RespondsOk
    \/ BodyFails
    \/ BodyParses

ClientSpec == ClientInit /\ [][ClientNext]_vars

-----------------------------------------------------------------------------
(* Two runs of executeTask with the same parameters, one after the other,    *)
(* the service answering the second as it answered the first up to what the  *)
(* relation `runs.relation` lets differ.                                     *)

\* largest iteration budget of the paired runs
MaxPairedIterations == 2

ReadPart ==
    [type |-> "tool", text |-> {}, tool |-> {"read"},
     state |-> {[status |-> {"completed"}, tool |-> {},
                 input |-> {[NoInput EXCEPT !.path = {"a.ts"}]},
                 output |-> {"export {}"}, metadata |-> {}]}]

\* BashFailPart with another tool name and another output
TestFailPart ==
    [type |-> "tool", text |-> {}, tool |-> {"test"},
     state |-> {[status |-> {"completed"}, tool |-> {},
                 input |-> {[NoInput EXCEPT !.command = {"npm test"}]},
                 output |-> {"Error: 2 failing"},
                 metadata |-> {[exit |-> {1}, output |-> {}]}]}]

\* BashFailPart with exit code 0
BashOkPart ==
    [type |-> "tool", text |-> {}, tool |-> {"bash"},
     state |-> {[status |-> {"completed"}, tool |-> {},
                 input |-> {[NoInput EXCEPT !.command = {"npm test"}]},
                 output |-> {"1 failing"},
                 metadata |-> {[exit |-> {0}, output |-> {}]}]}]

\* the responses of the agent and variants of them that differ in text,
\* tool name and captured output, or in exit code alone
PairedResponses ==
    AgentResponses \cup {ResponseOf({"stop"}, <<ReadPart>>),
                         ResponseOf({"stop"}, <<TestFailPart>>),
                         ResponseOf({"stop"}, <<BashOkPart>>)}

\* what the loop is said to decide on: the finish reason and the exit codes
\* of the tool actions
SignalsOf(resp) ==
    LET actions == extractToolActions(resp)
    IN  [finish |-> FinishOf(resp),
         exits  |-> [i \in DOMAIN actions |-> actions[i].exitCode]]

ExitCleared(part) ==
    IF part.state = {} \/ Some(part.state).metadata = {} THEN part
    ELSE LET st == Some(part.state)
             md == Some(st.metadata)
         IN  [part EXCEPT !.state = {[st EXCEPT !.metadata = {[md EXCEPT !.exit = {}]}]}]

\* the response with the exit codes of its tool parts removed
ExitsCleared(resp) ==
    IF resp.parts = {} THEN resp
    ELSE LET ps == Some(resp.parts)
         IN  [resp EXCEPT !.parts = {[i \in DOMAIN ps |-> ExitCleared(ps[i])]}]

\* two responses are alike under the relation: "signals" lets text parts,
\* tool names and captured output differ, "exits" lets exit codes differ,
\* "same" lets nothing differ
SameUnder(relation, a, b) ==
    CASE relation = "signals" -> SignalsOf(a) = SignalsOf(b)
      [] relation = "exits" -> ExitsCleared(a) = ExitsCleared(b)
      [] OTHER -> a = b

\* the service answers call b of the second run as it answered call a of
\* the first
Agrees(relation, b, a) ==
    /\ b.op = a.op
    /\ b.ok = a.ok
    /\ b.files = a.files
    /\ (b.body = {}) = (a.body = {})
    /\ b.body # {} => SameUnder(relation, Some(b.body), Some(a.body))

PairedInit ==
    /\ EngineInit
    /\ maxIterations <= MaxPairedIterations
    /\ probe = NoProbe
    /\ client = NoClient
    /\ regexTool = NoRegexTool
    /\ \E relation \in IF continueOnError THEN {"signals"} ELSE {"signals", "exits"} :
         runs = [kind |-> "paired", relation |-> relation, agent |-> PairedResponses,
                 phase |-> "first", first |-> <<>>]

\* a step of the second run answers the next call as the first run's was
\* answered
Follows ==
    (runs.phase = "second" /\ replies' # replies)
    => /\ Len(replies') <= Len(runs.first.replies)
       /\ Agrees(runs.relation, Last(replies'), runs.first.replies[Len(replies')])

\* The first run is over: what it did is kept, and executeTask is called
\* again with the same parameters.
SecondRun ==
    /\ runs.phase = "first"
    /\ pc = "done"
    /\ runs' = [runs EXCEPT !.phase = "second",
                            !.first = [outcome |-> outcome, result |-> result,
                                       iteration |-> iteration,
                                       consecutiveNoProgress |-> consecutiveNoProgress,
                                       calls |-> calls, replies |-> replies]]
    /\ pc' = "start"
    /\ outcome' = "running"
    /\ result' = {}
    /\ thrown' = {}
    /\ session' = {}
    /\ currentPrompt' = InitialPrompt
    /\ iteration' = 0
    /\ lastResponse' = {}
    /\ consecutiveNoProgress' = 0
    /\ allActions' = <<>>
    /\ logs' = <<>>
    /\ response' = {}
    /\ finalSession' = {}
    /\ remote' = NoChanges
    /\ calls' = <<>>
    /\ replies' = <<>>
    /\ waits' = 0
    /\ UNCHANGED <<params, probe, client, regexTool>>

PairedNext ==
    \/ Next /\ Follows
    \/ SecondRun

PairedSpec == PairedInit /\ [][PairedNext]_vars

-----------------------------------------------------------------------------
(* Two invocations of executeTask under way at once, as two calls of the     *)
(* tool make them.  Only one runs at a time; at a suspension point the       *)
(* other may go on.  The variables of the run hold the locals of the         *)
(* invocation that is running and the session it talks to, `runs.parked`    *)
(* those of the other.  When both are over, the one that ran last is run     *)
(* again alone, the service answering as before.                             *)

\* largest iteration budget of the concurrent invocations
MaxConcurrentIterations == 1

ConcurrentResponses ==
    {ResponseOf({"stop"}, <<TextPart, WritePart>>),
     ResponseOf({"length"}, <<BashFailPart>>)}

\* the locals of the running invocation, and its session
Activation ==
    [id |-> runs.id, continueOnError |-> continueOnError, pc |-> pc,
     outcome |-> outcome, result |-> result, thrown |-> thrown, session |-> session,
     currentPrompt |-> currentPrompt, iteration |-> iteration,
     lastResponse |-> lastResponse, consecutiveNoProgress |-> consecutiveNoProgress,
     allActions |-> allActions, logs |-> logs, response |-> response,
     finalSession |-> finalSession, remote |-> remote, calls |-> calls,
     replies |-> replies, waits |-> waits]

\* an invocation about to start
NewActivation(id, retry) ==
    [id |-> id, continueOnError |-> retry, pc |-> "start",
     outcome |-> "running", result |-> {}, thrown |-> {}, session |-> {},
     currentPrompt |-> InitialPrompt, iteration |-> 0,
     lastResponse |-> {}, consecutiveNoProgress |-> 0,
     allActions |-> <<>>, logs |-> <<>>, response |-> {},
     finalSession |-> {}, remote |-> NoChanges, calls |-> <<>>,
     replies |-> <<>>, waits |-> 0]

\* Resume with the iteration counter left as the other invocation had it
ResumeSharesIteration(a) ==
    /\ continueOnError' = a.continueOnError
    /\ pc' = a.pc
    /\ outcome' = a.outcome
    /\ result' = a.result
    /\ thrown' = a.thrown
    /\ session' = a.session
    /\ currentPrompt' = a.currentPrompt
    /\ iteration' = iteration
    /\ lastResponse' = a.lastResponse
    /\ consecutiveNoProgress' = a.consecutiveNoProgress
    /\ allActions' = a.allActions
    /\ logs' = a.logs
    /\ response' = a.response
    /\ finalSession' = a.finalSession
    /\ remote' = a.remote
    /\ calls' = a.calls
    /\ replies' = a.replies
    /\ waits' = a.waits

\* the invocation `a` goes on: the variables of the run are its locals
Resume(a) ==
    /\ continueOnError' = a.continueOnError
    /\ pc' = a.pc
    /\ outcome' = a.outcome
    /\ result' = a.result
    /\ thrown' = a.thrown
    /\ session' = a.session
    /\ currentPrompt' = a.currentPrompt
    /\ iteration' = a.iteration
    /\ lastResponse' = a.lastResponse
    /\ consecutiveNoProgress' = a.consecutiveNoProgress
    /\ allActions' = a.allActions
    /\ logs' = a.logs
    /\ response' = a.response
    /\ finalSession' = a.finalSession
    /\ remote' = a.remote
    /\ calls' = a.calls
    /\ replies' = a.replies
    /\ waits' = a.waits

ConcurrentInit ==
    /\ EngineInit
    /\ maxIterations <= MaxConcurrentIterations
    /\ probe = NoProbe
    /\ client = NoClient
    /\ regexTool = NoRegexTool
    /\ \E retry \in BOOLEAN :
         runs = [kind |-> "concurrent", relation |-> "same",
                 agent |-> ConcurrentResponses, phase |-> "first", first |-> <<>>,
                 id |-> "s1", parked |-> NewActivation("s2", retry), mixed |-> FALSE]

\* The running invocation is suspended or over, and the other goes on.
Switch ==
    /\ runs.phase = "first"
    /\ runs.parked.pc # "done"
    /\ runs' = [runs EXCEPT !.id = runs.parked.id,
                            !.parked = Activation,
                            !.mixed = @ \/ (/\ pc \notin {"start", "done"}
                                            /\ runs.parked.pc # "start")]
    /\ Resume(runs.parked)
    /\ UNCHANGED <<maxIterations, probe, client, regexTool>>

\* Both invocations are over: what the running one did is kept, and it is
\* made again, alone.
RunAlone ==
    /\ runs.phase = "first"
    /\ pc = "done"
    /\ runs.parked.pc = "done"
    /\ runs' = [runs EXCEPT !.phase = "second",
                            !.first = [outcome |-> outcome, result |-> result,
                                       thrown |-> thrown, iteration |-> iteration,
                                       calls |-> calls, replies |-> replies]]
    /\ Resume(NewActivation(runs.id, continueOnError))
    /\ UNCHANGED <<maxIterations, probe, client, regexTool>>

ConcurrentNext ==
    \/ Next /\ Follows
    \/ Switch
    \/ RunAlone

ConcurrentSpec == ConcurrentInit /\ [][ConcurrentNext]_vars

-----------------------------------------------------------------------------
(* The regex-based tool (src/opencode-supervisor-tool.ts): one run of the    *)
(* execute handler, which looks for error and success patterns in the text   *)
(* of the responses.  Texts are strings, searched and cut as the code does.  *)

Max(a, b) == IF a >= b THEN a ELSE b

Min(a, b) == IF a <= b THEN a ELSE b

\* one character of a case-insensitive match
LowerChar(c) ==
    CASE c = "A" -> "a" [] c = "B" -> "b" [] c = "C" -> "c" [] c = "D" -> "d"
      [] c = "E" -> "e" [] c = "F" -> "f" [] c = "G" -> "g" [] c = "H" -> "h"
      [] c = "I" -> "i" [] c = "J" -> "j" [] c = "K" -> "k" [] c = "L" -> "l"
      [] c = "M" -> "m" [] c = "N" -> "n" [] c = "O" -> "o" [] c = "P" -> "p"
      [] c = "Q" -> "q" [] c = "R" -> "r" [] c = "S" -> "s" [] c = "T" -> "t"
      [] c = "U" -> "u" [] c = "V" -> "v" [] c = "W" -> "w" [] c = "X" -> "x"
      [] c = "Y" -> "y" [] c = "Z" -> "z" [] OTHER -> c

\* s.toLowerCase(), half by half
RECURSIVE Lower(_)
Lower(s) ==
    IF Len(s) = 0 THEN ""
    ELSE IF Len(s) = 1 THEN LowerChar(s)
    ELSE Lower(SubSeq(s, 1, Len(s) \div 2)) \o Lower(SubSeq(s, Len(s) \div 2 + 1, Len(s)))

\* positions (from 1) at which the string p occurs in the string s
Occurrences(s, p) ==
    {i \in 1..(Len(s) - Len(p) + 1) : SubSeq(s, i, i + Len(p) - 1) = p}

\* s.indexOf(p), counted from 0; -1 if p does not occur
IndexOf(s, p) ==
    IF Occurrences(s, p) = {} THEN -1
    ELSE (CHOOSE i \in Occurrences(s, p) : \A j \in Occurrences(s, p) : i <= j) - 1

\* index of the first match of the literal pattern /p/i in text; -1 if none
IndexOfPattern(text, p) == IndexOf(Lower(text), Lower(p))

\* text.slice(start, end)
StringSlice(text, start, end) == SubSeq(text, start + 1, end)

IsSpace(c) == c \in {" ", "\n", "\t"}

RECURSIVE TrimStart(_)
TrimStart(s) ==
    IF Len(s) > 0 /\ IsSpace(SubSeq(s, 1, 1)) THEN TrimStart(SubSeq(s, 2, Len(s)))
    ELSE s

RECURSIVE TrimEnd(_)
TrimEnd(s) ==
    IF Len(s) > 0 /\ IsSpace(SubSeq(s, Len(s), Len(s)))
    THEN TrimEnd(SubSeq(s, 1, Len(s) - 1))
    ELSE s

\* s.trim()
Trim(s) == TrimEnd(TrimStart(s))

RECURSIVE Repeat(_, _)
Repeat(s, n) == IF n = 0 THEN "" ELSE s \o Repeat(s, n - 1)

ERROR_PATTERNS ==
    <<"Error:", "TypeError:", "ReferenceError:", "SyntaxError:", "ENOENT", "EACCES",
      "401 Unauthorized", "403 Forbidden", "404 Not Found",
      "500 Internal Server Error", "Cannot find module", "is not defined",
      "is not a function", "Unexpected token", "failed to", "permission denied">>

\* characters of the text kept before the start of the match
ExcerptBefore == 50

\* characters of the text kept from the start of the match on
ExcerptAfter == 150

\* the patterns of ERROR_PATTERNS that match text
MatchingPatterns(text) ==
    {k \in DOMAIN ERROR_PATTERNS : IndexOfPattern(text, ERROR_PATTERNS[k]) >= 0}

\* the excerpt around the match of the first pattern of the list that
\* matches, as an optional: {} is null
detectError(text) ==
    IF MatchingPatterns(text) = {} THEN {}
    ELSE LET k     == CHOOSE a \in MatchingPatterns(text) :
                          \A b \in MatchingPatterns(text) : a <= b
             idx   == IndexOfPattern(text, ERROR_PATTERNS[k])
             start == Max(0, idx - ExcerptBefore)
             end   == Min(Len(text), idx + ExcerptAfter)
         IN  {Trim(StringSlice(text, start, end))}

extractTextFromResponse(resp) ==
    IF resp.parts = {} THEN "" ELSE JoinLines(TextsOf(Some(resp.parts)))

RECURSIVE ToolStatesOf(_)
ToolStatesOf(ps) ==
    IF Len(ps) = 0 THEN <<>>
    ELSE IF ps[1].type = "tool" /\ Truthy(ps[1].state)
         THEN <<Some(ps[1].state)>> \o ToolStatesOf(Tail(ps))
         ELSE ToolStatesOf(Tail(ps))

extractToolResults(resp) ==
    IF resp.parts = {} THEN <<>> ELSE ToolStatesOf(Some(resp.parts))

\* [responseText, ...toolResults].join("\n")
AllTextOf(resp) ==
    JoinLines(<<extractTextFromResponse(resp)>> \o extractToolResults(resp))

successIndicators ==
    <<"successfully", "completed", "created", "works", "running", "output:">>

hasSuccessIndicator(allText) ==
    \E k \in DOMAIN successIndicators : IndexOfPattern(allText, successIndicators[k]) >= 0

\* characters of the response text copied into the log
ResponseLogCap == 500

sandboxDir == "/root/clawd/sandbox"

credentialsDir == "/root/clawd/credentials"

\* the tasks the handler is called with: a blank one and a real one
Tasks == {" ", "add a health endpoint"}

\* params.projectName, an optional
ProjectNames == {{}, {"api"}}

ProjectPath(projectName) ==
    IF Truthy(projectName) THEN sandboxDir \o "/" \o Some(projectName) ELSE sandboxDir

ToolInitialPrompt(task, projectPath) ==
    JoinLines(<<task,
                "",
                "CONTEXT:",
                "- Work directory: " \o projectPath,
                "- Credentials available at: " \o credentialsDir \o " (read-only)",
                "- Create all files in the work directory",
                "- Run and verify your code works before finishing">>)

FixPrompt(detectedError) ==
    JoinLines(<<"The previous step had an error:",
                detectedError,
                "",
                "Please fix this error and continue with the task.",
                "Make sure to verify the fix works before finishing.">>)

VerifyPrompt ==
    JoinLines(<<"Please verify that the task is complete:",
                "1. Check that all files were created",
                "2. Run the code and show the output",
                "3. Confirm everything works as expected">>)

StatusContinuePrompt(finishReason) ==
    "The previous request ended with status \"" \o Str(finishReason)
        \o "\". Please continue with the task."

ConnectionErrorPrompt(task) ==
    "There was a connection error. Please continue with the task: " \o task

RegexPart(type, text, state) == [type |-> type, text |-> text, state |-> state]

RegexResponse(finish, parts) ==
    [info |-> {[finish |-> finish, error |-> {}]}, parts |-> parts]

\* a text of more than ExcerptBefore + ExcerptAfter characters with an error
\* message in the middle
LongErrorText ==
    Repeat("reading files. ", 4) \o "ENOENT: no such file, open 'app.js'"
        \o Repeat(" retrying the build", 8)

\* responses of the agent: a success report, a bare "Done.", a success
\* report with a failed tool, a cut-off answer, a long error report, an
\* answer without finish reason or parts, and a cut-off answer with a failed
\* tool and no text
RegexResponses ==
    {RegexResponse({"stop"}, {<<RegexPart("text", {"Task completed successfully."}, {})>>}),
     RegexResponse({"stop"}, {<<RegexPart("text", {"Done."}, {})>>}),
     RegexResponse({"stop"}, {<<RegexPart("text", {"Created app.js"}, {}),
                               RegexPart("tool", {}, {"TypeError: run is not a function"})>>}),
     RegexResponse({"length"}, {<<RegexPart("text", {"Still working"}, {})>>}),
     RegexResponse({"stop"}, {<<RegexPart("text", {LongErrorText}, {})>>}),
     [info |-> {}, parts |-> {}],
     RegexResponse({"length"}, {<<RegexPart("tool", {}, {"npm ERR! Cannot find module 'x' "})>>})}

\* what the loop body reads from each response, worked out once
Readings ==
    [resp \in RegexResponses |->
        [responseText  |-> extractTextFromResponse(resp),
         allText       |-> AllTextOf(resp),
         detectedError |-> detectError(AllTextOf(resp)),
         hasSuccess    |-> hasSuccessIndicator(AllTextOf(resp))]]

ToolReply(op, ok, body) == [op |-> op, ok |-> ok, body |-> body]

\* the remote service may still fail a call of this run
ToolMayFail == FailedCalls(regexTool.replies) < MaxFaults

LogResponseText(responseText) ==
    "Response: " \o StringSlice(responseText, 0, Min(Len(responseText), ResponseLogCap))
        \o (IF Len(responseText) > ResponseLogCap THEN "..." ELSE "")

\* what execute returns: the details and the output text; the Markdown
\* report that repeats them is left out
ToolResultOf(t) ==
    LET finalText == IF t.lastResponse # {}
                     THEN extractTextFromResponse(Some(t.lastResponse))
                     ELSE ""
        status    == IF t.taskCompleted THEN "completed"
                     ELSE "stopped after " \o ToString(t.iteration) \o " iterations"
    IN  [output  |-> IF finalText # "" THEN finalText ELSE "(no text output)",
         details |-> [sessionId  |-> t.sessionId,
                      status     |-> status,
                      iterations |-> t.iteration,
                      completed  |-> t.taskCompleted,
                      logs       |-> t.logs]]

\* the run t leaves the loop and returns
ToolReturn(t) ==
    [t EXCEPT !.stage = "done", !.outcome = "returned", !.result = {ToolResultOf(t)}]

\* the run t raises err to the caller
ToolThrow(t, err) ==
    [t EXCEPT !.stage = "done", !.outcome = "raised", !.thrown = {err}]

\* the run t is back at `while (iteration < maxIterations)`: it starts the
\* next iteration and sends its prompt, or returns
ToolLoopHead(t) ==
    IF t.iteration < t.maxIterations
    THEN [t EXCEPT
            !.iteration = @ + 1,
            !.logs = Append(@, "--- Iteration " \o ToString(t.iteration + 1) \o "/"
                                 \o ToString(t.maxIterations) \o " ---"),
            !.calls = Append(@, Call("sendMessage", {t.currentPrompt})),
            !.stage = "sendMessage"]
    ELSE ToolReturn(t)

\* ToolOnResponse letting a "stop" in the last iteration complete the task
\* whatever was detected
ToolOnResponseCompletesAtLast(t, resp) ==
    LET finishReason  == FinishOf(resp)
        responseText  == Readings[resp].responseText
        detectedError == Readings[resp].detectedError
        more          == t.iteration < t.maxIterations
        seen == [t EXCEPT
                   !.lastResponse = {resp},
                   !.logs = @ \o <<"Finish: " \o (IF finishReason = {} THEN "unknown"
                                                  ELSE Some(finishReason))>>
                              \o (IF responseText # ""
                                  THEN <<LogResponseText(responseText)>> ELSE <<>>)]
    IN  IF Truthy(detectedError) /\ t.continueOnError /\ more
        THEN ToolLoopHead([seen EXCEPT
                             !.logs = Append(@, "Error detected: " \o Some(detectedError)),
                             !.currentPrompt = FixPrompt(Some(detectedError))])
        ELSE IF /\ finishReason = {"stop"}
                /\ ~Truthy(detectedError) \/ t.iteration = t.maxIterations
        THEN IF Readings[resp].hasSuccess \/ t.iteration = t.maxIterations
             THEN ToolReturn([seen EXCEPT
                                !.taskCompleted = TRUE,
                                !.logs = Append(@, "Task completed successfully")])
             ELSE ToolLoopHead([seen EXCEPT !.currentPrompt = VerifyPrompt])
        ELSE IF finishReason # {"stop"} /\ t.continueOnError /\ more
        THEN ToolLoopHead([seen EXCEPT !.currentPrompt = StatusContinuePrompt(finishReason)])
        ELSE ToolLoopHead(seen)

\* the loop body after the response resp has arrived in the run t
ToolOnResponse(t, resp) ==
    LET finishReason  == FinishOf(resp)
        responseText  == Readings[resp].responseText
        detectedError == Readings[resp].detectedError
        more          == t.iteration < t.maxIterations
        seen == [t EXCEPT
                   !.lastResponse = {resp},
                   !.logs = @ \o <<"Finish: " \o (IF finishReason = {} THEN "unknown"
                                                  ELSE Some(finishReason))>>
                              \o (IF responseText # ""
                                  THEN <<LogResponseText(responseText)>> ELSE <<>>)]
    IN  IF Truthy(detectedError) /\ t.continueOnError /\ more
        THEN ToolLoopHead([seen EXCEPT
                             !.logs = Append(@, "Error detected: " \o Some(detectedError)),
                             !.currentPrompt = FixPrompt(Some(detectedError))])
        ELSE IF finishReason = {"stop"} /\ ~Truthy(detectedError)
        THEN IF Readings[resp].hasSuccess \/ t.iteration = t.maxIterations
             THEN ToolReturn([seen EXCEPT
                                !.taskCompleted = TRUE,
                                !.logs = Append(@, "Task completed successfully")])
             ELSE ToolLoopHead([seen EXCEPT !.currentPrompt = VerifyPrompt])
        ELSE IF finishReason # {"stop"} /\ t.continueOnError /\ more
        THEN ToolLoopHead([seen EXCEPT !.currentPrompt = StatusContinuePrompt(finishReason)])
        ELSE ToolLoopHead(seen)

\* execute is about to be called
RegexInit ==
    /\ EngineIdle
    /\ probe = NoProbe
    /\ client = NoClient
    /\ runs = NoRuns
    /\ \E n \in (-1)..MaxIterations, retry \in BOOLEAN, task \in Tasks,
          projectName \in ProjectNames :
         regexTool = [stage           |-> "start",
                      maxIterations   |-> n,
                      continueOnError |-> retry,
                      task            |-> task,
                      projectName     |-> projectName,
                      sessionId       |-> "",
                      currentPrompt   |-> "",
                      iteration       |-> 0,
                      lastResponse    |-> {},
                      taskCompleted   |-> FALSE,
                      logs            |-> <<>>,
                      calls           |-> <<>>,
                      replies         |-> <<>>,
                      waits           |-> 0,
                      outcome         |-> "running",
                      result          |-> {},
                      thrown          |-> {}]

\* execute is called: it rejects a blank task, or asks for a session
ToolExecute ==
    /\ regexTool.stage = "start"
    /\ regexTool' =
         IF Trim(regexTool.task) = ""
         THEN ToolThrow(regexTool, "task is required")
         ELSE [regexTool EXCEPT
                 !.currentPrompt = ToolInitialPrompt(regexTool.task,
                                                     ProjectPath(regexTool.projectName)),
                 !.calls = Append(@, Call("createSession", {})),
                 !.stage = "createSession"]
    /\ UNCHANGED <<engineVars, probe, client, runs>>

ToolCreateSessionOk ==
    /\ regexTool.stage = "createSession"
    /\ LET t == [regexTool EXCEPT
                   !.replies = Append(@, ToolReply("createSession", TRUE, {})),
                   !.sessionId = SessionId,
                   !.logs = <<"Session: " \o SessionId, "Task: " \o regexTool.task, "">>]
       IN  regexTool' = ToolLoopHead(t)
    /\ UNCHANGED <<engineVars, probe, client, runs>>

ToolCreateSessionFail ==
    /\ regexTool.stage = "createSession"
    /\ ToolMayFail
    /\ regexTool' =
         ToolThrow([regexTool EXCEPT
                      !.replies = Append(@, ToolReply("createSession", FALSE, {}))],
                   "Failed to create OpenCode session: " \o RequestError)
    /\ UNCHANGED <<engineVars, probe, client, runs>>

\* the response to the message of the iteration arrives
ToolMessageOk ==
    /\ regexTool.stage = "sendMessage"
    /\ \E resp \in RegexResponses :
         regexTool' =
           ToolOnResponse([regexTool EXCEPT
                             !.replies = Append(@, ToolReply("sendMessage", TRUE, {resp}))],
                          resp)
    /\ UNCHANGED <<engineVars, probe, client, runs>>

\* the message request of the iteration fails: the catch block
ToolMessageFail ==
    /\ regexTool.stage = "sendMessage"
    /\ ToolMayFail
    /\ LET t == [regexTool EXCEPT
                   !.replies = Append(@, ToolReply("sendMessage", FALSE, {})),
                   !.logs = Append(@, "Request error: " \o RequestError)]
       IN  regexTool' =
             IF t.continueOnError /\ t.iteration < t.maxIterations
             THEN [t EXCEPT !.stage = "backoff"]
             ELSE ToolThrow(t, "OpenCode request failed: " \o RequestError)
    /\ UNCHANGED <<engineVars, probe, client, runs>>

\* ToolBackoff giving the failed iteration back to the budget
ToolBackoffRefunds ==
    /\ regexTool.stage = "backoff"
    /\ regexTool' =
         ToolLoopHead([regexTool EXCEPT
                         !.waits = @ + 1,
                         !.iteration = @ - 1,
                         !.currentPrompt = ConnectionErrorPrompt(regexTool.task)])
    /\ UNCHANGED <<engineVars, probe, client, runs>>

\* the backoff timer of the catch block elapses
ToolBackoff ==
    /\ regexTool.stage = "backoff"
    /\ regexTool' =
         ToolLoopHead([regexTool EXCEPT
                         !.waits = @ + 1,
                         !.currentPrompt = ConnectionErrorPrompt(regexTool.task)])
    /\ UNCHANGED <<engineVars, probe, client, runs>>

RegexNext ==
    \/ ToolExecute
    \/ ToolCreateSessionOk
    \/ ToolCreateSessionFail
    \/ ToolMessageOk
    \/ ToolMessageFail
    \/ ToolBackoff

RegexSpec == RegexInit /\ [][RegexNext]_vars

-----------------------------------------------------------------------------
(* Vocabulary of the properties *)

Returned == outcome = "returned"

TheResult == Some(result)

SendCalls == Len(SelectSeq(calls, LAMBDA c : c.op = "sendMessage"))

LoopLeft == pc \in {"finalGetSession", "getSessionDiff"} \/ Returned

\* the reply at position i answers a call made inside the loop
InLoop(i) == replies[i].op \in {"sendMessage", "getSession"} /\ ~replies[i].final

\* the reply at position i is the response to the prompt of iteration k
IsResponse(i, k) ==
    replies[i].op = "sendMessage" /\ replies[i].ok /\ replies[i].iter = k

\* the reply at position i is the in-loop session state of iteration k
IsSessionState(i, k) ==
    /\ replies[i].op = "getSession" /\ ~replies[i].final
    /\ replies[i].ok /\ replies[i].iter = k

ResponseAt(i) == Some(replies[i].body)

\* some action of the list has a numeric, non-zero exit code
SomeNonZeroExit(actions) ==
    \E j \in DOMAIN actions : actions[j].exitCode # {} /\ actions[j].exitCode # {0}

\* the file counts the in-loop getSession reported to the finish-reason
\* check of iteration k, if the iteration reached it with finish "stop"
\* (empty if it did not)
StopCheckFiles(k) ==
    {replies[i].files :
        i \in {j \in 2..Len(replies) :
                  /\ IsSessionState(j, k)
                  /\ IsResponse(j - 1, k)
                  /\ FinishOf(ResponseAt(j - 1)) = {"stop"}}}

\* iteration k reached the finish-reason check with finish "stop" and a
\* positive file-changed count
StopCheckedWithChanges(k) == \E n \in StopCheckFiles(k) : n > 0

\* iteration k reached the finish-reason check with finish "stop" and a
\* zero file-changed count
StopCheckedNoChanges(k) == 0 \in StopCheckFiles(k)

\* the actions of the responses among the replies `rs`, in the order received
RECURSIVE ActionsReceived(_)
ActionsReceived(rs) ==
    IF Len(rs) = 0 THEN <<>>
    ELSE (IF rs[1].op = "sendMessage" /\ rs[1].ok
          THEN extractToolActions(Some(rs[1].body))
          ELSE <<>>) \o ActionsReceived(Tail(rs))

\* the final getSession and getSessionDiff both succeeded
FinalFetchOk ==
    /\ Len(replies) > 0
    /\ Last(replies).op = "getSessionDiff" /\ Last(replies).ok

-----------------------------------------------------------------------------
(* C1 *)

\* C1 as stated: whenever an iteration receives a response with finish reason
\* "stop" while the session's file-changed count is positive, the run ends
\* with a result of status completed.
C1_StopWithChangesCompletes ==
    (/\ outcome # "running"
     /\ \E i \in DOMAIN replies, k \in 1..MaxIterations :
           /\ IsResponse(i, k) /\ FinishOf(ResponseAt(i)) = {"stop"}
           /\ replies[i].files > 0)
    => (Returned /\ TheResult.status = "completed")

\* C1 as amended: whenever an iteration reaches the finish-reason check with
\* finish "stop" and a positive file-changed count, the loop breaks at once
\* (no further prompt is sent, the run does not raise), and the result has
\* status completed exactly when the final fetch succeeds with a positive
\* count, whatever errors earlier iterations met.
C1_StopWithChangesBreaks ==
    \A k \in 1..MaxIterations :
        StopCheckedWithChanges(k)
        => /\ iteration = k
           /\ SendCalls = k
           /\ LoopLeft
           /\ outcome # "raised"
           /\ Returned =>
                /\ TheResult.iterations = k
                /\ TheResult.status = "completed"
                     <=> (FinalFetchOk /\ Last(replies).files > 0)

\* a run that broke on "stop" with changes in its third iteration, after a
\* tool error and a transport failure, and returned completed
C1_Witness ==
    /\ Returned
    /\ StopCheckedWithChanges(3)
    /\ TheResult.status = "completed"
    /\ hasToolError(TheResult.actions) # {}
    /\ \E i \in DOMAIN replies : ~replies[i].ok

-----------------------------------------------------------------------------
(* C2 *)

\* iteration k received a response with finish "stop" while the session's
\* file-changed count was zero
StopZeroReceived(k) ==
    \E i \in DOMAIN replies :
        /\ IsResponse(i, k) /\ FinishOf(ResponseAt(i)) = {"stop"}
        /\ replies[i].files = 0

\* C2 as stated: once three consecutive iterations have each received a
\* response with finish "stop" while the file-changed count is zero, no
\* further prompt is sent.
C2_ThreeStopZeroStops ==
    \A k \in 1..MaxIterations :
        (StopZeroReceived(k) /\ StopZeroReceived(k + 1) /\ StopZeroReceived(k + 2))
        => SendCalls <= k + 2

\* C2 as amended: once three consecutive iterations have each reached the
\* finish-reason check with finish "stop" and a zero file-changed count, the
\* loop breaks on no progress: no further prompt is sent and the run goes to
\* the final fetch.
C2_NoProgressBreaks ==
    \A k \in 1..MaxIterations :
        (/\ StopCheckedNoChanges(k)
         /\ StopCheckedNoChanges(k + 1)
         /\ StopCheckedNoChanges(k + 2))
        => /\ iteration = k + 2
           /\ SendCalls = k + 2
           /\ LoopLeft
           /\ outcome # "raised"
           /\ \E j \in DOMAIN logs : logs[j] = LogNoProgress

\* the loop broke on no progress with an iteration left in the budget
C2_Witness ==
    /\ StopCheckedNoChanges(1) /\ StopCheckedNoChanges(2) /\ StopCheckedNoChanges(3)
    /\ maxIterations > 3
    /\ Returned

-----------------------------------------------------------------------------
(* C3 *)

\* every remote call of the run succeeded, no response had finish "stop" and
\* the file-changed count was zero throughout
NeverStopsNoChanges ==
    \A i \in DOMAIN replies :
        /\ replies[i].ok
        /\ replies[i].files = 0
        /\ replies[i].op = "sendMessage" => FinishOf(ResponseAt(i)) # {"stop"}

\* C3 as stated: with maxIterations = N >= 1, a run without "stop", file
\* changes or transport failure makes exactly N iterations and then returns
\* max_iterations if no accumulated action had a non-zero exit code, failed
\* if one had.
C3_ExhaustionFailsOnToolError ==
    (outcome # "running" /\ maxIterations >= 1 /\ NeverStopsNoChanges)
    => /\ Returned
       /\ SendCalls = maxIterations
       /\ TheResult.iterations = maxIterations
       /\ TheResult.status = IF SomeNonZeroExit(TheResult.actions) THEN "failed"
                             ELSE "max_iterations"

\* C3 as amended: such a run makes exactly N iterations and then returns
\* max_iterations, whether or not an accumulated action had a non-zero exit
\* code.
C3_ExhaustionIsMaxIterations ==
    (outcome # "running" /\ maxIterations >= 1 /\ NeverStopsNoChanges)
    => /\ Returned
       /\ SendCalls = maxIterations
       /\ TheResult.iterations = maxIterations
       /\ TheResult.status = "max_iterations"

\* such a run of several iterations, with a failed command among its actions
C3_Witness ==
    /\ Returned /\ maxIterations >= 2 /\ NeverStopsNoChanges
    /\ SomeNonZeroExit(TheResult.actions)

-----------------------------------------------------------------------------
(* C4 *)

\* C4: a returned result has status completed if and only if its
\* filesChanged is positive, also when its actions hold tool errors or all
\* iterations were used.
C4_CompletedIffFilesChanged ==
    Returned => (TheResult.status = "completed" <=> TheResult.filesChanged > 0)

\* a completed result with a tool error among its actions and the iteration
\* budget used up
C4_Witness ==
    /\ Returned
    /\ TheResult.status = "completed"
    /\ \E j \in DOMAIN TheResult.actions : TheResult.actions[j].hasError
    /\ TheResult.iterations = maxIterations

-----------------------------------------------------------------------------
(* C5 *)

\* C5: a returned result with filesChanged = 0 is max_iterations iff
\* iterations >= maxIterations, failed iff iterations < maxIterations and
\* some accumulated action has hasError, completed_no_changes iff
\* iterations < maxIterations and none has.
C5_StatusWithoutChanges ==
    (Returned /\ TheResult.filesChanged = 0)
    => LET r       == TheResult
           anyErr  == \E j \in DOMAIN r.actions : r.actions[j].hasError
       IN  /\ r.status = "max_iterations" <=> r.iterations >= maxIterations
           /\ r.status = "failed" <=> (r.iterations < maxIterations /\ anyErr)
           /\ r.status = "completed_no_changes"
                <=> (r.iterations < maxIterations /\ ~anyErr)

\* a failed result: the loop broke on no progress before the budget ran out
\* and a command had failed
C5_Witness ==
    /\ Returned
    /\ TheResult.filesChanged = 0
    /\ TheResult.status = "failed"
    /\ \E j \in DOMAIN logs : logs[j] = LogNoProgress

-----------------------------------------------------------------------------
(* C6 *)

SentPrompts == SelectSeq(calls, LAMBDA c : c.op = "sendMessage")

\* createSession succeeds; the first response has finish "stop", a zero
\* file-changed count and one write-class action without exit code; the
\* second has finish "stop" and a file-changed count of 3; no call fails
WriteThenChangesScenario ==
    /\ Len(replies) >= 4
    /\ \A i \in DOMAIN replies : replies[i].ok
    /\ replies[1].op = "createSession"
    /\ IsResponse(2, 1) /\ FinishOf(ResponseAt(2)) = {"stop"} /\ replies[2].files = 0
    /\ LET a == extractToolActions(ResponseAt(2))
       IN  Len(a) = 1 /\ a[1].tool \in {"write", "edit"} /\ a[1].exitCode = {}
    /\ IsSessionState(3, 1) /\ replies[3].files = 0
    /\ IsResponse(4, 2) /\ FinishOf(ResponseAt(4)) = {"stop"} /\ replies[4].files = 3

\* what the scenario ends in: the loop breaks after the second iteration and
\* the result is completed with filesChanged = 3 and iterations = 2
BreaksCompletedAfterTwo ==
    /\ SendCalls = 2
    /\ Len(replies) >= 5 => LoopLeft
    /\ outcome # "raised"
    /\ Returned => /\ TheResult.status = "completed"
                   /\ TheResult.filesChanged = 3
                   /\ TheResult.iterations = 2

\* C6 as stated: in the scenario the second prompt sent is the "you haven't
\* made any file changes yet" message, and the run ends as above.
C6_ScenarioSendsUseWriteTool ==
    WriteThenChangesScenario
    => /\ SentPrompts[2].text = {UseWriteToolPrompt}
       /\ BreaksCompletedAfterTwo

\* C6 as amended: in the scenario (the second response carrying no failed
\* action when continueOnError is true) the second prompt sent is the "you
\* made write attempts but no files were changed" message, and the run ends
\* as above.
C6_ScenarioSendsVerifyWrites ==
    (/\ WriteThenChangesScenario
     /\ continueOnError => hasToolError(extractToolActions(ResponseAt(4))) = {})
    => /\ SentPrompts[2].text = {VerifyWritesPrompt}
       /\ BreaksCompletedAfterTwo

\* the scenario, run to its result
C6_Witness ==
    /\ WriteThenChangesScenario
    /\ Returned
    /\ TheResult.status = "completed"

-----------------------------------------------------------------------------
(* C7 *)

\* this step is the failure of a remote call of the loop body
LoopCallFails ==
    /\ pc \in {"sendMessage", "getSession"}
    /\ Len(replies') = Len(replies) + 1
    /\ ~Last(replies').ok

\* failed calls of the loop that the catch block chose to retry
RetriedFailures ==
    Cardinality({i \in DOMAIN replies :
                    /\ InLoop(i) /\ ~replies[i].ok
                    /\ continueOnError /\ replies[i].iter < maxIterations})

WaitsDone == waits + (IF pc = "backoff" THEN 1 ELSE 0)

\* C7: when a remote call fails in iteration i with continueOnError and
\* i < maxIterations, the failure is logged and exactly one backoff wait
\* follows, after which the prompt is the generic continuation prompt and
\* the next sendMessage is iteration i + 1; the iteration counter never goes
\* back.
C7_FailedAttemptConsumesIteration ==
    [][/\ (LoopCallFails /\ continueOnError /\ iteration < maxIterations)
            => /\ logs' = Append(logs, LogRequestError(RequestError))
               /\ pc' = "backoff"
               /\ iteration' = iteration
               /\ waits' = waits
               /\ calls' = calls
               /\ outcome' = "running"
       /\ pc = "backoff"
            => /\ waits' = waits + 1
               /\ currentPrompt' = ErrorContinuePrompt
               /\ iteration' = iteration + 1
               /\ pc' = "sendMessage"
               /\ calls' = Append(calls, Call("sendMessage", {ErrorContinuePrompt}))
       /\ iteration' >= iteration
       /\ WaitsDone' = RetriedFailures'
      ]_vars

\* the retry of a failed first iteration is under way as iteration 2
C7_Witness ==
    /\ pc = "sendMessage"
    /\ iteration = 2
    /\ waits = 1
    /\ ~replies[2].ok /\ replies[2].iter = 1
    /\ currentPrompt = ErrorContinuePrompt

-----------------------------------------------------------------------------
(* C8 *)

CreateFailed ==
    \E i \in DOMAIN replies : replies[i].op = "createSession" /\ ~replies[i].ok

\* a call of the loop failed with continueOnError false or in the last
\* allowed iteration
FatalLoopFailure ==
    \E i \in DOMAIN replies :
        /\ InLoop(i) /\ ~replies[i].ok
        /\ ~continueOnError \/ replies[i].iter = maxIterations

\* C8: executeTask raises if and only if createSession fails or a call of
\* the loop fails with continueOnError false or in the last allowed
\* iteration; then no final fetch is made and no result produced, and every
\* other finished run returns a result.
C8_RaisesIffFatal ==
    /\ outcome = "raised" <=> (CreateFailed \/ FatalLoopFailure)
    /\ outcome = "raised"
         => /\ result = {}
            /\ thrown # {}
            /\ Len(calls) = Len(replies)
            /\ \A i \in DOMAIN replies : ~replies[i].final
            /\ \A i \in DOMAIN calls : calls[i].op # "getSessionDiff"
    /\ pc = "done" => outcome \in {"returned", "raised"}
    /\ Returned => result # {} /\ thrown = {}

\* the in-loop getSession of the last allowed iteration failed under
\* continueOnError and the run raised
C8_Witness ==
    /\ outcome = "raised"
    /\ continueOnError
    /\ maxIterations >= 2
    /\ Last(replies).op = "getSession" /\ Last(replies).iter = maxIterations

-----------------------------------------------------------------------------
(* C9 *)

\* C9: if createSession fails the run raises at once: createSession is not
\* retried, no other call is issued and the loop is not entered.
C9_CreateFailureRaisesAtOnce ==
    CreateFailed
    => /\ outcome = "raised"
       /\ pc = "done"
       /\ calls = <<Call("createSession", {})>>
       /\ Len(replies) = 1
       /\ iteration = 0
       /\ result = {}

\* createSession has failed
C9_Witness == CreateFailed /\ thrown = {"Failed to create session: " \o RequestError}

-----------------------------------------------------------------------------
(* C10 *)

FinalFetchFailed ==
    \E i \in DOMAIN replies : replies[i].final /\ ~replies[i].ok

\* C10: once the loop has ended the final getSession is attempted; a failure
\* of it or of getSessionDiff never raises but is logged, and the result has
\* zero filesChanged, additions and deletions, no diffs, and the status that
\* follows from a zero count.
C10_FinalFailureZeroes ==
    /\ LoopLeft
         => \E i \in DOMAIN calls :
               /\ calls[i].op = "getSession"
               /\ \A j \in (i + 1)..Len(calls) : calls[j].op = "getSessionDiff"
    /\ FinalFetchFailed
         => /\ Returned
            /\ Last(logs) = LogFinalStateFailed(RequestError)
            /\ TheResult.logs = logs
            /\ TheResult.filesChanged = 0
            /\ TheResult.additions = 0
            /\ TheResult.deletions = 0
            /\ TheResult.diffs = <<>>
            /\ TheResult.status =
                 IF TheResult.iterations >= maxIterations THEN "max_iterations"
                 ELSE IF \E j \in DOMAIN allActions : allActions[j].hasError
                      THEN "failed"
                 ELSE "completed_no_changes"

\* getSessionDiff failed after the final getSession had reported changed
\* files, and the result was returned
C10_Witness ==
    /\ Returned
    /\ Len(replies) >= 2
    /\ Last(replies).op = "getSessionDiff" /\ ~Last(replies).ok
    /\ replies[Len(replies) - 1].ok /\ replies[Len(replies) - 1].files > 0

-----------------------------------------------------------------------------
(* C11 *)

\* the tool parts of a response that carry a state, in order
ToolPartsOf(resp) ==
    IF resp.parts = {} THEN <<>>
    ELSE SelectSeq(Some(resp.parts), LAMBDA p : p.type = "tool" /\ p.state # {})

\* the exit code a tool part reports, absent if it reports none
ExitOf(part) ==
    LET st == Some(part.state)
    IN  IF st.metadata = {} THEN {} ELSE Some(st.metadata).exit

\* C11: extractToolActions yields one action per tool part that has a state
\* and flags it (hasError) exactly when the part's exit code is present and
\* not 0, whatever its output says; hasToolError returns the first flagged
\* action of the list, or none when no action is flagged.
C11_FlagIsNonZeroExit ==
    /\ probe.stage # "given"
         => LET ps == ToolPartsOf(probe.response)
            IN  /\ Len(probe.actions) = Len(ps)
                /\ \A i \in DOMAIN ps :
                      /\ probe.actions[i].exitCode = ExitOf(ps[i])
                      /\ probe.actions[i].hasError
                           <=> (ExitOf(ps[i]) # {} /\ ExitOf(ps[i]) # {0})
    /\ probe.stage \in {"searched", "again"}
         => LET flagged == {i \in DOMAIN probe.actions : probe.actions[i].hasError}
            IN  IF flagged = {} THEN probe.error = {}
                ELSE \E i \in flagged :
                        /\ \A j \in flagged : i <= j
                        /\ probe.error = {probe.actions[i]}

\* a command that exited with 0 and printed an error text is not flagged,
\* the one after it that exited with 2 is, and is the one found
C11_Witness ==
    /\ probe.stage = "searched"
    /\ Len(probe.actions) = 2
    /\ probe.actions[1].exitCode = {0}
    /\ probe.actions[1].output = {"Error: command not found"}
    /\ ~probe.actions[1].hasError
    /\ probe.actions[2].exitCode = {2}
    /\ probe.error = {probe.actions[2]}

-----------------------------------------------------------------------------
(* C12 *)

SecondRunning == runs.phase = "second"

FirstRun == runs.first

\* the remote operation the run is suspended on, "none" if it is not
\* suspended on one
OpAwaited ==
    CASE pc = "createSession" -> "createSession"
      [] pc = "sendMessage" -> "sendMessage"
      [] pc \in {"getSession", "finalGetSession"} -> "getSession"
      [] pc = "getSessionDiff" -> "getSessionDiff"
      [] OTHER -> "none"

\* the second run makes the calls the first made, in the same iterations:
\* whenever it waits for a call the first run made that call next, and it
\* ends when the first run's calls are used up
KeepsPace ==
    /\ Len(replies) <= Len(FirstRun.replies)
    /\ \A i \in DOMAIN replies :
          /\ replies[i].op = FirstRun.replies[i].op
          /\ replies[i].iter = FirstRun.replies[i].iter
          /\ replies[i].final = FirstRun.replies[i].final
    /\ OpAwaited # "none"
         => /\ Len(replies) < Len(FirstRun.replies)
            /\ FirstRun.replies[Len(replies) + 1].op = OpAwaited
    /\ pc = "done" => Len(replies) = Len(FirstRun.replies)

\* the second run ended as the first: raised or returned, and if returned
\* with the same status and iteration count
EndsAlike ==
    /\ outcome = FirstRun.outcome
    /\ iteration = FirstRun.iteration
    /\ Returned => /\ TheResult.status = Some(FirstRun.result).status
                   /\ TheResult.iterations = Some(FirstRun.result).iterations

\* C12: two runs with the same parameters whose remote calls fail alike and
\* report the same file-changed counts, and whose responses have the same
\* finish reasons and exit codes but may differ in text parts, tool names
\* and captured output, make the same calls in the same iterations and end
\* with the same status and iteration count.
C12_SignalsDecideStatus ==
    (SecondRunning /\ runs.relation = "signals")
    => /\ KeepsPace
       /\ pc = "done" => EndsAlike

\* the first run was answered with a written file and the second with a
\* file read; they sent different prompts and both returned
C12_Witness ==
    /\ SecondRunning /\ runs.relation = "signals"
    /\ Returned
    /\ \E i \in DOMAIN replies :
          /\ replies[i].body = {ResponseOf({"stop"}, <<ReadPart>>)}
          /\ FirstRun.replies[i].body = {ResponseOf({"stop"}, <<TextPart, WritePart>>)}
    /\ calls # FirstRun.calls
    /\ TheResult.iterations = 2

-----------------------------------------------------------------------------
(* C13 *)

\* C13: when every remote call and every backoff wait is answered in the
\* end, every run ends, returning a result or raising: each iteration uses
\* one unit of the iteration budget, so a run makes at most maxIterations
\* sendMessage calls, 2 * maxIterations + 3 calls in all, and then is done.
C13_RunTerminates ==
    /\ [](/\ iteration <= maxIterations \/ iteration = 0
          /\ SendCalls = iteration
          /\ Len(calls) <= 2 * iteration + 3
          /\ pc = "done" => outcome \in {"returned", "raised"})
    /\ <>(pc = "done")

\* a run that used its whole budget of several iterations, met a failure
\* and waited, and ended
C13_Witness ==
    /\ pc = "done"
    /\ maxIterations >= 3
    /\ iteration = maxIterations
    /\ waits >= 1

-----------------------------------------------------------------------------
(* C14 *)

-----------------------------------------------------------------------------
(* C15 *)

\* C15: every call of a client method issues exactly one request.
\* abortSession never raises: it returns true when the request succeeded and
\* false when it failed.  createSession, getSession, getSessionDiff and
\* sendMessage return the body when the request succeeded and raise the
\* request's error when it failed; none asks again.
C15_AbortSwallowsOthersPropagate ==
    /\ client.stage # "idle" => client.requests = <<RequestOf(client.method)>>
    /\ \A i \in DOMAIN client.finished :
          LET c == client.finished[i]
          IN  /\ c.requests = <<RequestOf(c.method)>>
              /\ IF c.method = "abortSession"
                 THEN /\ c.raised = {}
                      /\ c.returned = {c.failure = {}}
                 ELSE /\ c.failure = {} => (c.raised = {} /\ c.returned = {c.body})
                      /\ c.failure # {} => (c.raised = c.failure /\ c.returned = {})

\* a getSession that raised the HTTP error of its request, then an
\* abortSession whose request timed out and that returned false
C15_Witness ==
    /\ Len(client.finished) = 2
    /\ client.finished[1].method = "getSession"
    /\ client.finished[1].raised = {RequestError}
    /\ client.finished[2].method = "abortSession"
    /\ client.finished[2].failure = {"This operation was aborted"}
    /\ client.finished[2].returned = {FALSE}

-----------------------------------------------------------------------------
(* C16 *)

-----------------------------------------------------------------------------
(* C17 *)

\* iterations whose outcome is known: all but the one still waiting for its
\* response or its session state
IterationsOver ==
    IF pc \in {"sendMessage", "getSession"} THEN iteration - 1 ELSE iteration

\* the number of iterations, counted back from iteration n, that each
\* reached the finish-reason check with finish "stop" and zero files changed
RECURSIVE TrailingStopZero(_)
TrailingStopZero(n) ==
    IF n = 0 \/ ~StopCheckedNoChanges(n) THEN 0 ELSE 1 + TrailingStopZero(n - 1)

\* C17 as stated: in every reachable state the no-progress counter equals
\* the number of immediately preceding consecutive iterations whose outcome
\* was finish "stop" with zero files changed, and the no-progress break
\* happens only when the last three iterations were all of that kind.
\* (Stated of the runs that have not raised.)
C17_CounterIsConsecutive ==
    /\ outcome # "raised" => consecutiveNoProgress = TrailingStopZero(IterationsOver)
    /\ (\E j \in DOMAIN logs : logs[j] = LogNoProgress)
         => TrailingStopZero(iteration) >= NoProgressLimit

-----------------------------------------------------------------------------
(* C18 *)

\* this step is the arrival of a response to the prompt of the iteration
ResponseArrives ==
    /\ pc = "sendMessage"
    /\ Len(replies') = Len(replies) + 1
    /\ Last(replies').ok

\* the first action of the arriving response with an exit code that is
\* present and not 0, as an optional
FirstFailedArriving ==
    LET actions == extractToolActions(Some(Last(replies').body))
        failed  == {i \in DOMAIN actions :
                       actions[i].exitCode # {} /\ actions[i].exitCode # {0}}
    IN  IF failed = {} THEN {}
        ELSE {actions[CHOOSE i \in failed : \A j \in failed : i <= j]}

\* C18: when a response holds a failed action and continueOnError is true,
\* the prompt becomes the corrective prompt with that action's exit code and
\* output, the no-progress counter becomes 0, and the iteration is over: no
\* session state is fetched for it, nothing is logged of file changes, of
\* completion or of no progress, and the loop goes on with the next
\* iteration, or ends because the budget is used up, whatever the finish
\* reason.
C18_ToolErrorSkipsFinishCheck ==
    [][(ResponseArrives /\ continueOnError /\ FirstFailedArriving # {})
         => LET failed == Some(FirstFailedArriving)
            IN  /\ currentPrompt' =
                     [kind     |-> "fix_error",
                      exitCode |-> failed.exitCode,
                      output   |-> IF failed.output \in {{}, {""}} THEN "(no output)"
                                   ELSE Some(failed.output)]
                /\ consecutiveNoProgress' = 0
                /\ \A j \in (Len(logs) + 1)..Len(logs') :
                      logs'[j].kind \in {"finish", "actions", "tool_error", "iteration"}
                /\ outcome' = "running"
                /\ IF iteration < maxIterations
                   THEN /\ iteration' = iteration + 1
                        /\ pc' = "sendMessage"
                        /\ calls' = Append(calls, Call("sendMessage", {currentPrompt'}))
                   ELSE /\ iteration' = iteration
                        /\ pc' = "finalGetSession"
                        /\ calls' = Append(calls, Call("getSession", {}))
      ]_vars

\* the second iteration's response said "stop" while files had changed, but
\* held a failed command: the counter went from 1 to 0 and a third prompt,
\* the corrective one, was sent
C18_Witness ==
    /\ continueOnError
    /\ pc = "sendMessage"
    /\ iteration = 3
    /\ StopCheckedNoChanges(1)
    /\ IsResponse(Len(replies), 2)
    /\ FinishOf(ResponseAt(Len(replies))) = {"stop"}
    /\ Last(replies).files > 0
    /\ consecutiveNoProgress = 0
    /\ Last(calls).text = {[kind |-> "fix_error", exitCode |-> {1}, output |-> "1 failing"]}

-----------------------------------------------------------------------------
(* C19 *)

\* C19: with continueOnError false, two runs whose remote calls fail alike
\* and report the same file-changed counts, and whose responses are the same
\* but for the exit codes of their actions, send the same prompts in the
\* same iterations, make the same calls, leave the loop at the same
\* iteration with the same no-progress count and both return or both raise;
\* only the actions and the status of the result may differ.
C19_FailedActionKeepsControl ==
    (SecondRunning /\ runs.relation = "exits" /\ ~continueOnError)
    => /\ KeepsPace
       /\ \A i \in DOMAIN calls : calls[i] = FirstRun.calls[i]
       /\ pc = "done"
            => /\ calls = FirstRun.calls
               /\ outcome = FirstRun.outcome
               /\ iteration = FirstRun.iteration
               /\ consecutiveNoProgress = FirstRun.consecutiveNoProgress
               /\ Returned
                    => LET r == TheResult
                           f == Some(FirstRun.result)
                       IN  /\ r.iterations = f.iterations
                           /\ r.filesChanged = f.filesChanged
                           /\ r.finalOutput = f.finalOutput
                           /\ Len(r.actions) = Len(f.actions)

\* the first run was answered with a command that exited with 1 and the
\* second with the same command exiting with 0; both left the loop in the
\* first of two iterations, and the results differ in status
C19_Witness ==
    /\ SecondRunning /\ runs.relation = "exits" /\ ~continueOnError
    /\ Returned
    /\ Len(replies) >= 2
    /\ replies[2].body = {ResponseOf({"stop"}, <<BashOkPart>>)}
    /\ FirstRun.replies[2].body = {ResponseOf({"stop"}, <<BashFailPart>>)}
    /\ maxIterations = 2 /\ TheResult.iterations = 1
    /\ TheResult.status = "completed_no_changes"
    /\ Some(FirstRun.result).status = "failed"

-----------------------------------------------------------------------------
(* C20 *)

\* the finish reason as the generic continue prompt quotes it
QuotedFinish(resp) ==
    IF FinishOf(resp) = {} THEN "undefined" ELSE Some(FinishOf(resp))

\* every response of the run had a finish reason other than "stop"
OnlyNonStopResponses ==
    \A i \in DOMAIN replies :
        (replies[i].op = "sendMessage" /\ replies[i].ok)
        => FinishOf(ResponseAt(i)) # {"stop"}

\* no call of the run has failed
NoCallFailed == \A i \in DOMAIN replies : replies[i].ok

\* C20 as stated, for runs in which no call fails: when the response of
\* iteration k has a finish reason other than "stop", then with
\* continueOnError the prompt of iteration k + 1 is the generic continue
\* prompt, and without it the prompt of iteration k + 1 is the prompt of
\* iteration k, and a run of only such responses ends by exhausting
\* maxIterations.
C20_NonStopContinues ==
    NoCallFailed
    => /\ \A i \in DOMAIN replies, k \in 1..MaxIterations :
             (/\ IsResponse(i, k) /\ FinishOf(ResponseAt(i)) # {"stop"}
              /\ SendCalls > k)
             => SentPrompts[k + 1].text =
                  IF continueOnError
                  THEN {[kind |-> "continue_after_finish",
                         finish |-> QuotedFinish(ResponseAt(i))]}
                  ELSE SentPrompts[k].text
       /\ (/\ ~continueOnError /\ OnlyNonStopResponses
           /\ SendCalls > 0 /\ outcome # "running")
          => (Returned /\ TheResult.iterations = maxIterations)

\* this step is the arrival of the session state at the finish-reason check
\* of an iteration whose response has a finish reason other than "stop"
NonStopChecked ==
    /\ pc = "getSession"
    /\ Len(replies') = Len(replies) + 1
    /\ Last(replies').ok
    /\ FinishOf(Some(response)) # {"stop"}

\* C20 as amended: when an iteration reaches the finish-reason check (its
\* response holds no failed action while continueOnError is true, and the
\* in-loop getSession succeeds) with a finish reason other than "stop", the
\* no-progress counter is left as it is, the prompt becomes the generic
\* continue prompt with continueOnError and is left as it is without, and
\* the loop is not left by break: the prompt is sent in the next iteration,
\* or the budget is used up.  A run of only such responses in which no call
\* fails makes maxIterations iterations, with continueOnError false all of
\* them with the initial prompt.
C20_NonStopAtFinishCheck ==
    /\ [][NonStopChecked
            => /\ consecutiveNoProgress' = consecutiveNoProgress
               /\ currentPrompt' =
                    IF continueOnError
                    THEN [kind |-> "continue_after_finish",
                          finish |-> QuotedFinish(Some(response))]
                    ELSE currentPrompt
               /\ outcome' = "running"
               /\ Last(logs').kind \in {"unexpected_finish", "iteration"}
               /\ IF iteration < maxIterations
                  THEN /\ iteration' = iteration + 1
                       /\ pc' = "sendMessage"
                       /\ calls' = Append(calls, Call("sendMessage", {currentPrompt'}))
                  ELSE /\ iteration' = iteration
                       /\ pc' = "finalGetSession"
         ]_vars
    /\ []((/\ OnlyNonStopResponses /\ outcome # "running" /\ NoCallFailed
            /\ maxIterations >= 0)
           => /\ Returned
              /\ TheResult.iterations = maxIterations
              /\ SendCalls = maxIterations
              /\ ~continueOnError
                   => \A j \in DOMAIN SentPrompts :
                         SentPrompts[j].text = {InitialPrompt})

\* a run with continueOnError false whose three responses all came without
\* a finish reason or cut off, one of them with a failed command: the
\* initial prompt was sent three times and the budget was used up
C20_Witness ==
    /\ ~continueOnError
    /\ maxIterations = 3
    /\ Returned
    /\ OnlyNonStopResponses
    /\ SendCalls = 3
    /\ \A j \in DOMAIN SentPrompts : SentPrompts[j].text = {InitialPrompt}
    /\ TheResult.status = "max_iterations"
    /\ hasToolError(TheResult.actions) # {}
    /\ \E i \in DOMAIN replies : IsResponse(i, 2) /\ FinishOf(ResponseAt(i)) = {}

-----------------------------------------------------------------------------
(* C21 *)

\* this step is the arrival of a zero file-changed count at the finish-reason
\* check of an iteration whose response has finish "stop", the no-progress
\* counter staying under its limit
StopZeroUnderLimit ==
    /\ pc = "getSession"
    /\ Len(replies') = Len(replies) + 1
    /\ Last(replies').ok
    /\ Last(replies').files = 0
    /\ FinishOf(Some(response)) = {"stop"}
    /\ consecutiveNoProgress + 1 < NoProgressLimit

\* some response received so far carried a write or an edit action
WriteAttempted ==
    \E j \in DOMAIN ActionsReceived(replies) :
        ActionsReceived(replies)[j].tool \in {"write", "edit"}

\* C21: after an iteration with finish "stop" and a zero file-changed count
\* that stays under the no-progress limit, the prompt is the verify-and-retry
\* message if a write or edit action appears among the actions of all the
\* responses received so far, and the use-the-write-or-edit-tool instruction
\* if none does; it is the prompt sent in the next iteration.
C21_PromptFollowsCumulativeWrites ==
    [][StopZeroUnderLimit
        => /\ currentPrompt' = IF WriteAttempted THEN VerifyWritesPrompt
                               ELSE UseWriteToolPrompt
           /\ consecutiveNoProgress' = consecutiveNoProgress + 1
           /\ iteration < maxIterations
                => /\ pc' = "sendMessage"
                   /\ calls' = Append(calls, Call("sendMessage", {currentPrompt'}))
      ]_vars

\* the third prompt is the verify-and-retry message although the second
\* response carried no action at all: the write was in the first response
C21_Witness ==
    /\ pc = "sendMessage"
    /\ iteration = 3
    /\ SentPrompts[3].text = {VerifyWritesPrompt}
    /\ \E i \in DOMAIN replies :
          /\ IsResponse(i, 2)
          /\ extractToolActions(ResponseAt(i)) = <<>>
          /\ StopCheckedNoChanges(2)
    /\ \E i \in DOMAIN replies :
          /\ IsResponse(i, 1)
          /\ hasWriteActions(extractToolActions(ResponseAt(i)))

-----------------------------------------------------------------------------
(* C22 *)

\* the run is suspended on a remote call
AwaitingReply ==
    pc \in {"createSession", "sendMessage", "getSession", "finalGetSession",
            "getSessionDiff"}

\* the phase in which call i was issued: 1 CREATING, 2 ITERATING,
\* 3 FINALIZING
PhaseOfCall(i) ==
    IF calls[i].op = "createSession" THEN 1
    ELSE IF (IF i <= Len(replies) THEN replies[i].final
             ELSE pc \in {"finalGetSession", "getSessionDiff"})
         THEN 3
         ELSE 2

\* the calls issued in phase ph, in order
CallsOfPhase(ph) == {i \in DOMAIN calls : PhaseOfCall(i) = ph}

\* C22: the remote calls of a run occur in the order CREATING, ITERATING,
\* FINALIZING with no step back and one call outstanding at a time:
\* createSession once and first; in the loop only sendMessage and getSession,
\* each getSession right after the sendMessage of its iteration; in the
\* final fetch one getSession, then at most one getSessionDiff, which is the
\* last call; a run that returns has made the final getSession, and the
\* getSessionDiff exactly if that getSession succeeded; no other operation
\* (abortSession) is ever called.
C22_CallsFollowPhases ==
    /\ Len(calls) = Len(replies) + (IF AwaitingReply THEN 1 ELSE 0)
    /\ \A i \in DOMAIN replies : replies[i].op = calls[i].op
    /\ \A i \in DOMAIN calls :
          /\ calls[i].op \in {"createSession", "sendMessage", "getSession",
                               "getSessionDiff"}
          /\ calls[i].op = "createSession" <=> i = 1
          /\ i > 1 => PhaseOfCall(i) >= PhaseOfCall(i - 1)
          /\ PhaseOfCall(i) = 2
               => /\ calls[i].op \in {"sendMessage", "getSession"}
                  /\ calls[i].op = "getSession"
                       => /\ calls[i - 1].op = "sendMessage"
                          /\ replies[i - 1].ok
          /\ PhaseOfCall(i) = 3
               => /\ calls[i].op \in {"getSession", "getSessionDiff"}
                  /\ calls[i].op = "getSession" => PhaseOfCall(i - 1) < 3
                  /\ calls[i].op = "getSessionDiff"
                       => /\ i = Len(calls)
                          /\ PhaseOfCall(i - 1) = 3
                          /\ calls[i - 1].op = "getSession"
                          /\ replies[i - 1].ok
    /\ SendCalls = Cardinality({i \in CallsOfPhase(2) : calls[i].op = "sendMessage"})
    /\ Returned
         => /\ Cardinality(CallsOfPhase(3)) \in {1, 2}
            /\ Cardinality(CallsOfPhase(3)) = 2
                 <=> \E i \in CallsOfPhase(3) :
                        calls[i].op = "getSession" /\ replies[i].ok
    /\ outcome = "raised" => CallsOfPhase(3) = {}

\* a returned run that went through every phase: an iteration with its
\* getSession, one without (the corrective path), and the whole final fetch
C22_Witness ==
    /\ Returned
    /\ Len(calls) >= 6
    /\ Cardinality(CallsOfPhase(3)) = 2
    /\ \E i \in CallsOfPhase(2) : calls[i].op = "getSession"
    /\ \E i \in CallsOfPhase(2) :
          /\ calls[i].op = "sendMessage" /\ replies[i].ok
          /\ calls[i + 1].op = "sendMessage"

-----------------------------------------------------------------------------
(* C23 *)

\* sendMessage calls answered so far, by a response or by a failure
SendsAnswered == Len(SelectSeq(replies, LAMBDA r : r.op = "sendMessage"))

\* C23 as stated: once executeTask is under way the number of sendMessage
\* calls issued equals the iteration counter and never exceeds
\* maxIterations, and the iterations field of a returned result is that
\* number.
C23_SendsWithinMaxIterations ==
    pc # "start"
    => /\ SendCalls = iteration
       /\ SendCalls <= maxIterations
       /\ Returned => TheResult.iterations = SendCalls

\* C23 as amended: the number of sendMessage calls issued equals the
\* iteration counter; it never exceeds maxIterations when maxIterations is
\* not negative and is 0 when it is; the iterations field of a returned
\* result is the number of sendMessage calls of the run, those that failed
\* included.
C23_SendsEqualIteration ==
    /\ SendCalls = iteration
    /\ IF maxIterations >= 0 THEN SendCalls <= maxIterations ELSE SendCalls = 0
    /\ Returned
         => /\ TheResult.iterations = SendCalls
            /\ TheResult.iterations = SendsAnswered

\* a returned run of three iterations, the sendMessage of one of which
\* failed
C23_Witness ==
    /\ Returned
    /\ TheResult.iterations = 3
    /\ \E i \in DOMAIN replies : replies[i].op = "sendMessage" /\ ~replies[i].ok

-----------------------------------------------------------------------------
(* C24 *)

\* C24: the cumulative action list is at every moment the in-order
\* concatenation of the actions extracted from every response received so
\* far, whatever path the iteration of the response took afterwards, so it
\* only grows; the actions field of a returned result is that concatenation
\* over the whole run.
C24_ActionsAccumulate ==
    /\ allActions = ActionsReceived(replies)
    /\ Returned => TheResult.actions = ActionsReceived(replies)

\* a returned run whose first response took the corrective path and whose
\* second response was followed by a failed getSession: the actions of both
\* are in the result, in the order received
C24_Witness ==
    /\ Returned
    /\ continueOnError
    /\ \E i \in DOMAIN replies :
          /\ IsResponse(i, 1)
          /\ hasToolError(extractToolActions(ResponseAt(i))) # {}
    /\ \E i \in DOMAIN replies :
          /\ IsResponse(i, 2)
          /\ hasWriteActions(extractToolActions(ResponseAt(i)))
          /\ replies[i + 1].op = "getSession" /\ ~replies[i + 1].ok
    /\ Len(TheResult.actions) >= 2
    /\ TheResult.actions[1].tool = "bash"
    /\ TheResult.actions[2].tool = "write"

-----------------------------------------------------------------------------
(* C25 *)

\* a remote call of iteration k failed
IterationFailed(k) ==
    \E i \in DOMAIN replies : InLoop(i) /\ ~replies[i].ok /\ replies[i].iter = k

\* C25: with maxIterations >= 1 a returned result has iterations >= 1, no
\* remote call of iteration number `iterations` failed, and finalOutput is
\* the text of the response received in that iteration; once a remote call
\* of iteration number maxIterations has failed the run has raised, and it
\* never returns a result.
C25_LastIterationSucceeded ==
    maxIterations >= 1
    => /\ Returned
            => /\ TheResult.iterations >= 1
               /\ ~IterationFailed(TheResult.iterations)
               /\ \E i \in DOMAIN replies :
                     /\ IsResponse(i, TheResult.iterations)
                     /\ TheResult.finalOutput = extractText(ResponseAt(i))
       /\ IterationFailed(maxIterations)
            => /\ outcome = "raised"
               /\ pc = "done"
               /\ result = {}

\* a returned run whose last response, on the corrective path, had no text
\* while an earlier one had: the final output is empty
C25_Witness ==
    /\ Returned
    /\ TheResult.iterations >= 2
    /\ TheResult.finalOutput = ""
    /\ \E i \in DOMAIN replies :
          /\ IsResponse(i, TheResult.iterations)
          /\ hasToolError(extractToolActions(ResponseAt(i))) # {}
          /\ continueOnError
    /\ \E i \in DOMAIN replies, k \in 1..MaxIterations :
          /\ k < TheResult.iterations
          /\ IsResponse(i, k)
          /\ extractText(ResponseAt(i)) = "Done."
    /\ \E k \in 1..MaxIterations : IterationFailed(k)

-----------------------------------------------------------------------------
(* C26 *)

\* C26: with maxIterations <= 0 the run calls createSession and then goes
\* straight to the final fetch without sending a message; it raises only if
\* createSession fails; its result has iterations = 0, no actions, an empty
\* finalOutput, the file-changed count of the final fetch (0 if the fetch
\* failed), and status completed if that count is positive, max_iterations
\* if it is 0.
C26_EmptyBudgetSkipsLoop ==
    maxIterations <= 0
    => /\ SendCalls = 0
       /\ iteration = 0
       /\ \A i \in DOMAIN calls :
             calls[i].op = (CASE i = 1 -> "createSession"
                              [] i = 2 -> "getSession"
                              [] OTHER -> "getSessionDiff")
       /\ Len(calls) <= 3
       /\ outcome = "raised" <=> CreateFailed
       /\ Returned
            => /\ replies[1].op = "createSession" /\ replies[1].ok
               /\ replies[2].op = "getSession" /\ replies[2].final
               /\ TheResult.iterations = 0
               /\ TheResult.actions = <<>>
               /\ TheResult.finalOutput = ""
               /\ TheResult.filesChanged =
                    IF FinalFetchOk THEN Last(replies).files ELSE 0
               /\ TheResult.status =
                    IF TheResult.filesChanged > 0 THEN "completed"
                    ELSE "max_iterations"

\* a run with a negative budget on a session that already holds changes
\* returned completed without sending a message
C26_Witness ==
    /\ maxIterations < 0
    /\ Returned
    /\ TheResult.status = "completed"
    /\ TheResult.filesChanged = 3
    /\ TheResult.iterations = 0

-----------------------------------------------------------------------------
(* C27 *)

\* message requests the run of the regex-based tool has issued
ToolSendCalls ==
    Len(SelectSeq(regexTool.calls, LAMBDA c : c.op = "sendMessage"))

ToolReturned == regexTool.outcome = "returned"

TheDetails == Some(regexTool.result).details

\* the responses some error pattern matches, in their text or tool results
ErrorResponses == {r \in RegexResponses : MatchingPatterns(AllTextOf(r)) # {}}

\* the last reply is a response with finish "stop" that no error pattern
\* matches
EndedOnCleanStop ==
    /\ Len(regexTool.replies) > 0
    /\ Last(regexTool.replies).op = "sendMessage"
    /\ Last(regexTool.replies).ok
    /\ FinishOf(Some(Last(regexTool.replies).body)) = {"stop"}
    /\ Some(Last(regexTool.replies).body) \notin ErrorResponses

\* C27 as stated: a returned run has status "completed" only if its last
\* response had finish "stop" and matched no error pattern; any other
\* returned run has status "stopped after N iterations" with N the number
\* of message requests issued; N never exceeds maxIterations.
C27_CompletedOnlyOnCleanStop ==
    ToolReturned
    => /\ TheDetails.status = "completed" => EndedOnCleanStop
       /\ TheDetails.status # "completed"
            => TheDetails.status =
                 "stopped after " \o ToString(ToolSendCalls) \o " iterations"
       /\ ToolSendCalls <= regexTool.maxIterations

\* C27 as amended: as stated, except that the number of message requests
\* never exceeds maxIterations when maxIterations is not negative and is 0
\* when it is; the iteration count and the completed flag of the result
\* agree with the status.
C27_CompletedOnlyOnCleanStopWithinBudget ==
    /\ ToolSendCalls = regexTool.iteration
    /\ IF regexTool.maxIterations >= 0
       THEN ToolSendCalls <= regexTool.maxIterations
       ELSE ToolSendCalls = 0
    /\ ToolReturned
         => /\ TheDetails.completed <=> TheDetails.status = "completed"
            /\ TheDetails.status = "completed" => EndedOnCleanStop
            /\ TheDetails.status # "completed"
                 => TheDetails.status =
                      "stopped after " \o ToString(ToolSendCalls) \o " iterations"
            /\ TheDetails.iterations = ToolSendCalls

\* a run that returned "stopped after 3 iterations": one request failed and
\* was retried, and the last response, with finish "stop", matched an error
\* pattern
C27_Witness ==
    /\ ToolReturned
    /\ TheDetails.status = "stopped after 3 iterations"
    /\ regexTool.maxIterations = 3
    /\ \E i \in DOMAIN regexTool.replies : ~regexTool.replies[i].ok
    /\ Last(regexTool.replies).ok
    /\ Some(Last(regexTool.replies).body) \in ErrorResponses
    /\ FinishOf(Some(Last(regexTool.replies).body)) = {"stop"}

-----------------------------------------------------------------------------
(* C28 *)

\* this step is the arrival of a response that matches an error pattern
ErrorResponseArrives ==
    /\ regexTool.stage = "sendMessage"
    /\ Len(regexTool'.replies) = Len(regexTool.replies) + 1
    /\ Last(regexTool'.replies).ok
    /\ Some(Last(regexTool'.replies).body) \in ErrorResponses

\* the excerpt detectError cuts from the response arriving in this step
ArrivingExcerpt == Some(Readings[Some(Last(regexTool'.replies).body)].detectedError)

\* C28: when a response matches an error pattern, the run is not marked
\* completed in that iteration, whatever the iteration and continueOnError;
\* with continueOnError and iterations remaining the next message is sent at
\* once, as the next iteration, and it is the fix prompt, which contains the
\* excerpt detected in the response.  A run marked completed ended on a
\* response that matches no error pattern.
C28_ErrorNeverCompletes ==
    /\ [][ErrorResponseArrives
            => /\ ~regexTool'.taskCompleted
               /\ (regexTool.continueOnError
                      /\ regexTool.iteration < regexTool.maxIterations)
                    => /\ regexTool'.stage = "sendMessage"
                       /\ regexTool'.iteration = regexTool.iteration + 1
                       /\ regexTool'.calls =
                            Append(regexTool.calls,
                                   Call("sendMessage", {FixPrompt(ArrivingExcerpt)}))
                       /\ IndexOf(Some(Last(regexTool'.calls).text), ArrivingExcerpt) >= 0
                       /\ Len(ArrivingExcerpt) > 0
         ]_vars
    /\ [](regexTool.taskCompleted => EndedOnCleanStop)

\* the fix prompt for a long error report is on its way: it quotes the
\* excerpt, which is shorter than the report
C28_Witness ==
    /\ regexTool.stage = "sendMessage"
    /\ regexTool.iteration = 2
    /\ regexTool.continueOnError
    /\ regexTool.replies[2].ok
    /\ extractTextFromResponse(Some(regexTool.replies[2].body)) = LongErrorText
    /\ regexTool.currentPrompt = FixPrompt(Some(detectError(LongErrorText)))
    /\ Len(Some(detectError(LongErrorText))) < Len(LongErrorText)
    /\ Last(regexTool.calls).text = {regexTool.currentPrompt}

====
